---- MODULE Spec2Model ----
(***************************************************************************)
(* State-machine model of the simulation engine                            *)
(* (CISCO-VIP-NETWORKING-2025-main/src/simulation_engine.py): the per-node *)
(* agent threads (NetworkNode.run), the delivery worker (_route_packets /  *)
(* _deliver_packet), the lifecycle and fault-injection API called from the *)
(* caller thread, and the control-plane client handler (_handle_client).   *)
(*                                                                         *)
(* Threads interleave at the granularity of the shared reads and writes    *)
(* the code makes without any lock: one action per such step.              *)
(* Timestamps, MAC addresses, logging, packet_log and the contents of the  *)
(* ARP cache are left out: no decision of the code reads them; of          *)
(* packet_log the model keeps which packets were logged as sent.           *)
(*                                                                         *)
(* The lifecycle calls (start / pause / resume / stop) are taken as one    *)
(* step each: the races the model follows are those of the threads with a  *)
(* call that has returned.  inject_link_failure is two steps, split at its *)
(* blocking rx_queue.put.  send_packet does not write tx_queue and nothing *)
(* else in the engine does, so outbound traffic enters through TxQueuePut, *)
(* a put on the public tx_queue by a client of NetworkNode.                *)
(***************************************************************************)
EXTENDS Integers, Sequences, FiniteSets, TLC

----------------------------------------------------------------------------
(* Bounds of the model *)

\* stands for queue.Queue(maxsize=1000) of rx_queue / tx_queue
QueueMax == 2
\* cap on the statistics counters packets_sent / packets_dropped
MaxStat == 1
\* number of messages a client of NetworkNode puts on outbound queues
MaxExt == 1
\* number of frames the control-plane client sends
MaxFrames == 3
\* number of fault-injection API calls (inject_link_failure / restore_link)
MaxLinkCalls == 2

----------------------------------------------------------------------------
(* Node ids.  Agents are the keys of SimulationEngine.configs (one         *)
(* NetworkNode each, in dict order); Ghost is a node id that names no      *)
(* configuration: the API takes any string.                                *)

AgentOrder == <<"A", "B">>
Agents == {AgentOrder[i] : i \in 1..Len(AgentOrder)}
Ghost == "X"
NodeIds == Agents \cup {Ghost}
NULL == "NULL"

\* config["parsed_config"]["device_type"] == "router" and routing.ospf.enabled
OspfRouters == {"A"}

\* the (node1, node2) arguments the caller passes to the fault-injection API
LinkArgs == {<<"A", "B">>, <<"B", "A">>, <<"A", "X">>}

\* the graph handed to the engine: built by topology_builder, its nodes are
\* the configuration keys; InitAdj[n] is the adjacency dict of n
InitAdj == [n \in NodeIds |-> IF n = "A" THEN <<"B">>
                              ELSE IF n = "B" THEN <<"A">> ELSE <<>>]

----------------------------------------------------------------------------
(* Messages (NetworkPacket): kind = packet_type, src = the node whose      *)
(* address is source_ip, arg = the payload field the handlers read.        *)

NoPacket == [kind |-> "none", src |-> NULL, arg |-> NULL]
LinkFailurePacket(node2) == [kind |-> "LINK_FAILURE", src |-> "engine", arg |-> node2]
HelloPacket(n) == [kind |-> "OSPF", src |-> n, arg |-> n]
ArpRequest(s, t) == [kind |-> "ARP", src |-> s, arg |-> t]
ArpReply(s) == [kind |-> "ARP", src |-> s, arg |-> "reply"]
DataPacket(s, d) == [kind |-> "DATA", src |-> s, arg |-> d]

\* what a client of NetworkNode puts on the outbound queue of node s
ExtPackets(s) == {ArpRequest(s, t) : t \in Agents \ {s}} \cup {DataPacket(s, Ghost)}

\* the payloads of the burst, in the order in which they are enqueued
PayloadIds == <<"p1", "p2", "p3", "p4", "p5">>
PayloadNo(m) == CHOOSE i \in 1..Len(PayloadIds) : PayloadIds[i] = m.arg
IsTraffic(m) == m.kind = "DATA" /\ \E i \in 1..Len(PayloadIds) : PayloadIds[i] = m.arg

\* the i-th packet of the burst, sent by s: a DATA packet for no local address
TrafficPacket(s, i) == [kind |-> "DATA", src |-> s, arg |-> PayloadIds[i]]

----------------------------------------------------------------------------
VARIABLES
  adj,            \* topology._adj: node -> entries of its adjacency dict (NULL: deleted entry)
  gnodes,         \* the nodes of the graph
  edata,          \* the attribute dict of each edge of the graph
  running,        \* SimulationEngine.running
  paused,         \* SimulationEngine.paused
  node_running,   \* NetworkNode.running
  node_paused,    \* NetworkNode.paused
  rx_queue,       \* NetworkNode.rx_queue
  tx_queue,       \* NetworkNode.tx_queue
  packets_sent,   \* statistics["packets_sent"]
  packets_dropped,\* statistics["packets_dropped"]
  sent_log,       \* packet_log: the packets of its entries of type "sent"
  apc,            \* each agent thread: its position in run()
  ait,            \* each agent thread: its iterator over topology.neighbors
  wpc,            \* the delivery worker thread: its position in _route_packets
  wst,            \* the delivery worker's locals (node index, packet, iterator, neighbor)
  cpc,            \* the caller thread: idle, or inside a call that has not returned
  ipc_server,     \* the listening socket: "open" | "closed"
  ipc_threads,    \* number of _handle_ipc threads started
  worker_threads, \* number of _route_packets threads started
  conn,           \* the client connection: "none" | "open" | "closed"
  hpc,            \* the client handler thread: position in _handle_client
  inflight,       \* frames the client has sent that the handler has not read
  exchanges,      \* frames read and responses written on the connection, and the last of each
  last_call,      \* the API call that returned last, and how
  link_calls,     \* number of calls made that edit the graph (fault injection, analysis tools)
  ext_puts,       \* number of messages put on outbound queues by the client of NetworkNode
  failed,         \* links whose inject_link_failure has returned, not restored since
  pause_returned, \* pause_simulation has returned and resume_simulation was not called since
  stop_returned,  \* stop_simulation has returned
  rx_log,         \* per node, the packets of the burst the worker has put on its inbound queue, in order
  prs,            \* CiscoConfigParser.parse_config: the record under construction and its locals
  bld,            \* topology_builder.build_from_configs: the records given and the graph built
  val,            \* NetworkValidator, one of its checks: the records given and the issues returned
  d1,             \* Day1Simulator: its graph, records, ospf_neighbors and validate_neighbors' locals
  fwd             \* one DATA packet object, the inbound queues that hold it and the agents handling it

graphVars == <<adj, gnodes, edata>>
flagVars == <<running, paused, node_running, node_paused>>
queueVars == <<rx_queue, tx_queue>>
statVars == <<packets_sent, packets_dropped, sent_log>>
agentVars == <<apc, ait>>
workerVars == <<wpc, wst>>
engineThreads == <<ipc_server, ipc_threads, worker_threads>>
ipcVars == <<conn, hpc, inflight, exchanges>>
histVars == <<last_call, link_calls, ext_puts, failed, pause_returned, stop_returned, rx_log>>
\* the offline pipeline (parser, topology builder, validator, Day-1 simulator),
\* and a node forwarding DATA with a routing table given to it
pureVars == <<prs, bld, val, d1, fwd>>

\* before parse_config, build_from_configs, _check_duplicate_ips or Day1Simulator is called
NotParsing == [pc |-> "idle"]
NotSent == [pc |-> "idle"]
NotBuilt == [pc |-> "idle"]
NotValidated == [pc |-> "idle"]
NoDay1 == [pc |-> "idle"]

vars == <<adj, gnodes, edata, running, paused, node_running, node_paused, rx_queue, tx_queue,
          packets_sent, packets_dropped, sent_log, apc, ait, wpc, wst, cpc,
          ipc_server, ipc_threads, worker_threads, conn, hpc, inflight, exchanges,
          last_call, link_calls, ext_puts, failed, pause_returned, stop_returned, rx_log, pureVars>>

----------------------------------------------------------------------------
(* The adjacency dicts of the graph.  A Python dict keeps its entries in   *)
(* insertion order; a deleted entry stays in the entry array as a hole     *)
(* until an insertion finds the array full and rebuilds it.                *)

\* USABLE_FRACTION(PyDict_MINSIZE): entries a small dict holds before a rebuild
DictUsable == (2 * 8) \div 3

Live(d) == {d[i] : i \in 1..Len(d)} \ {NULL}
DictLen(d) == Cardinality(Live(d))
DictDel(d, k) == [i \in 1..Len(d) |-> IF d[i] = k THEN NULL ELSE d[i]]
Compact(d) == SelectSeq(d, LAMBDA e : e # NULL)
DictSet(d, k) == IF k \in Live(d) THEN d
                 ELSE IF Len(d) >= DictUsable THEN Append(Compact(d), k)
                 ELSE Append(d, k)

\* a dict key iterator: di_used, di_pos, len
NoIter == [used |-> 0, pos |-> 0, len |-> 0]
NewIter(d) == [used |-> DictLen(d), pos |-> 0, len |-> DictLen(d)]

\* next(it) over dict d: a key, StopIteration, or RuntimeError
IterNext(d, it) ==
  LET later == {i \in 1..Len(d) : i > it.pos /\ d[i] # NULL} IN
  IF it.used # DictLen(d) THEN [res |-> "error", key |-> NULL, it |-> it]
  ELSE IF later = {} THEN [res |-> "stop", key |-> NULL, it |-> it]
  ELSE IF it.len = 0 THEN [res |-> "error", key |-> NULL, it |-> it]
  ELSE LET i == CHOOSE j \in later : \A k \in later : j <= k IN
       [res |-> "key", key |-> d[i], it |-> [it EXCEPT !.pos = i, !.len = @ - 1]]

\* networkx.Graph: has_edge, neighbors, remove_edge, add_edge
\* a has_edge that only looks for node a: what C5 rules out
HasEdgeOfNode(a, b) == a \in gnodes /\ b \in NodeIds
HasEdge(a, b) == a \in gnodes /\ b \in Live(adj[a])
Neighbors(n) == Live(adj[n])
NeighborSets == [n \in NodeIds |-> Neighbors(n)]
\* a remove_edge that deletes only a's entry for b: what C3 rules out
RemoveEdgeOneWay(a, b) == [n \in NodeIds |-> IF n = a THEN DictDel(adj[n], b) ELSE adj[n]]
RemoveEdge(a, b) == [n \in NodeIds |-> IF n = a THEN DictDel(adj[n], b)
                                       ELSE IF n = b THEN DictDel(adj[n], a)
                                       ELSE adj[n]]
AddEdge(a, b) == [n \in NodeIds |-> IF n = a THEN DictSet(adj[n], b)
                                    ELSE IF n = b THEN DictSet(adj[n], a)
                                    ELSE adj[n]]

\* the attribute dict of an edge: the keys it holds and their values
Links == {{a, b} : a \in NodeIds, b \in NodeIds} \ {{n} : n \in NodeIds}
\* the dict of add_edge(u, v) without keyword arguments, and of no edge
EmptyData == [keys |-> {}, link_type |-> NULL, subnet |-> NULL,
              bandwidth_kbps |-> 0, cost |-> 0]
\* the dict build_from_configs gives a subnet edge
SubnetData == [keys |-> {"link_type", "subnet", "bandwidth_kbps", "cost"},
               link_type |-> "subnet", subnet |-> "10.0.0.0/24",
               bandwidth_kbps |-> 1544, cost |-> 64]
InitData == [l \in Links |-> IF l = {"A", "B"} THEN SubnetData ELSE EmptyData]
\* remove_edge(a, b) deletes the dict; add_edge(a, b) on a missing edge
\* creates an empty one
RemoveEdgeData(a, b) == [edata EXCEPT ![{a, b}] = EmptyData]
AddEdgeData(a, b) == [edata EXCEPT ![{a, b}] = EmptyData]

----------------------------------------------------------------------------
(* The state after SimulationEngine.__init__ *)

NoFrame == [form |-> "none", type |-> NULL, node_id |-> NULL]
NoExchange == [read |-> 0, written |-> 0, frame |-> NoFrame, resp |-> NULL]
NoCall == [op |-> "none", args |-> <<>>, had_edge |-> FALSE, err |-> "none"]

Init ==
  /\ adj = InitAdj
  /\ gnodes = Agents
  /\ edata = InitData
  /\ running = FALSE
  /\ paused = FALSE
  /\ node_running = [n \in Agents |-> FALSE]
  /\ node_paused = [n \in Agents |-> FALSE]
  /\ rx_queue = [n \in Agents |-> <<>>]
  /\ tx_queue = [n \in Agents |-> <<>>]
  /\ packets_sent = [n \in Agents |-> 0]
  /\ packets_dropped = [n \in Agents |-> 0]
  /\ sent_log = [n \in Agents |-> {}]
  /\ apc = [n \in Agents |-> "new"]
  /\ ait = [n \in Agents |-> NoIter]
  /\ wpc = "new"
  /\ wst = [i |-> 0, pkt |-> NoPacket, it |-> NoIter, nb |-> NULL]
  /\ cpc = [pc |-> "idle", a |-> NULL, b |-> NULL]
  /\ ipc_server = "open"
  /\ ipc_threads = 0
  /\ worker_threads = 0
  /\ conn = "none"
  /\ hpc = "none"
  /\ inflight = <<>>
  /\ exchanges = NoExchange
  /\ last_call = [cur |-> NoCall, prev |-> NoCall, pre |-> NeighborSets, pre_prev |-> NeighborSets]
  /\ link_calls = 0
  /\ ext_puts = 0
  /\ failed = {}
  /\ pause_returned = FALSE
  /\ stop_returned = FALSE
  /\ rx_log = [n \in Agents |-> <<>>]
  /\ prs = NotParsing
  /\ bld = NotBuilt
  /\ val = NotValidated
  /\ d1 = NoDay1
  /\ fwd = NotSent

\* the record of a call that has returned (or raised)
Returned(op, args, had_edge, err, pre) ==
  [cur |-> [op |-> op, args |-> args, had_edge |-> had_edge, err |-> err],
   prev |-> last_call.cur, pre |-> pre, pre_prev |-> last_call.pre]

----------------------------------------------------------------------------
(* The caller thread: the lifecycle API *)

Idle == cpc.pc = "idle"

\* Thread.start() of every node, in dict order: a thread that was started
\* before raises RuntimeError, which ends start_simulation at that line
StartRaises == \E n \in Agents : apc[n] # "new"

StartSimulation ==
  /\ Idle
  /\ running' = TRUE
  /\ IF StartRaises
     THEN /\ UNCHANGED <<apc, wpc, wst, ipc_threads, worker_threads>>
          /\ last_call' = Returned("start", <<>>, FALSE, "RuntimeError", NeighborSets)
     ELSE /\ apc' = [n \in Agents |-> "started"]
          /\ ipc_threads' = ipc_threads + 1
          /\ worker_threads' = worker_threads + 1
          /\ wpc' = "loop"
          /\ wst' = [wst EXCEPT !.i = 0]
          /\ last_call' = Returned("start", <<>>, FALSE, "none", NeighborSets)
  /\ UNCHANGED <<graphVars, paused, node_running, node_paused, queueVars, statVars, ait,
                 cpc, ipc_server, ipcVars, link_calls, ext_puts, failed,
                 pause_returned, stop_returned, rx_log, pureVars>>

\* a pause_simulation that flips the flags: what C13 rules out
PauseSimulationFlips ==
  /\ Idle
  /\ paused' = ~paused
  /\ node_paused' = [n \in Agents |-> ~paused]
  /\ pause_returned' = ~paused
  /\ last_call' = Returned("pause", <<>>, FALSE, "none", NeighborSets)
  /\ UNCHANGED <<graphVars, running, node_running, queueVars, statVars, agentVars,
                 workerVars, cpc, engineThreads, ipcVars, link_calls, ext_puts, failed,
                 stop_returned, rx_log, pureVars>>

PauseSimulation ==
  /\ Idle
  /\ paused' = TRUE
  /\ node_paused' = [n \in Agents |-> TRUE]
  /\ pause_returned' = TRUE
  /\ last_call' = Returned("pause", <<>>, FALSE, "none", NeighborSets)
  /\ UNCHANGED <<graphVars, running, node_running, queueVars, statVars, agentVars,
                 workerVars, cpc, engineThreads, ipcVars, link_calls, ext_puts, failed,
                 stop_returned, rx_log, pureVars>>

ResumeSimulation ==
  /\ Idle
  /\ paused' = FALSE
  /\ node_paused' = [n \in Agents |-> FALSE]
  /\ pause_returned' = FALSE
  /\ last_call' = Returned("resume", <<>>, FALSE, "none", NeighborSets)
  /\ UNCHANGED <<graphVars, running, node_running, queueVars, statVars, agentVars,
                 workerVars, cpc, engineThreads, ipcVars, link_calls, ext_puts, failed,
                 stop_returned, rx_log, pureVars>>

StopSimulation ==
  /\ Idle
  /\ running' = FALSE
  /\ node_running' = [n \in Agents |-> FALSE]
  /\ ipc_server' = "closed"
  /\ stop_returned' = TRUE
  /\ last_call' = Returned("stop", <<>>, FALSE, "none", NeighborSets)
  /\ UNCHANGED <<graphVars, paused, node_paused, queueVars, statVars, agentVars,
                 workerVars, cpc, ipc_threads, worker_threads, ipcVars, link_calls,
                 ext_puts, failed, pause_returned, rx_log, pureVars>>

----------------------------------------------------------------------------
(* The caller thread: fault injection *)

Link(a, b) == {a, b}

\* inject_link_failure up to the blocking rx_queue.put: the has_edge test,
\* remove_edge, and the test that node1 has an agent
InjectRemove(a, b) ==
  /\ Idle
  /\ link_calls < MaxLinkCalls
  /\ link_calls' = link_calls + 1
  /\ IF HasEdge(a, b)
     THEN /\ adj' = RemoveEdge(a, b)
          /\ edata' = RemoveEdgeData(a, b)
          /\ IF a \in Agents
             THEN /\ cpc' = [pc |-> "inject_put", a |-> a, b |-> b]
                  /\ UNCHANGED <<last_call, failed>>
             ELSE /\ last_call' = Returned("inject", <<a, b>>, TRUE, "none", NeighborSets)
                  /\ failed' = failed \cup {Link(a, b)}
                  /\ UNCHANGED cpc
     ELSE /\ last_call' = Returned("inject", <<a, b>>, FALSE, "none", NeighborSets)
          /\ failed' = failed \cup {Link(a, b)}
          /\ UNCHANGED <<adj, edata, cpc>>
  /\ UNCHANGED <<gnodes, flagVars, queueVars, statVars, agentVars, workerVars,
                 engineThreads, ipcVars, ext_puts, pause_returned, stop_returned, rx_log, pureVars>>

\* the blocking put of the LINK_FAILURE packet on node1's inbound queue
InjectPut ==
  /\ cpc.pc = "inject_put"
  /\ Len(rx_queue[cpc.a]) < QueueMax
  /\ rx_queue' = [rx_queue EXCEPT ![cpc.a] = Append(@, LinkFailurePacket(cpc.b))]
  /\ cpc' = [pc |-> "idle", a |-> NULL, b |-> NULL]
  /\ last_call' = Returned("inject", <<cpc.a, cpc.b>>, TRUE, "none",
                           [NeighborSets EXCEPT ![cpc.a] = @ \cup {cpc.b},
                                                ![cpc.b] = @ \cup {cpc.a}])
  /\ failed' = failed \cup {Link(cpc.a, cpc.b)}
  /\ UNCHANGED <<graphVars, flagVars, tx_queue, statVars, agentVars, workerVars,
                 engineThreads, ipcVars, link_calls, ext_puts, pause_returned,
                 stop_returned, rx_log, pureVars>>

RestoreLink(a, b) ==
  /\ Idle
  /\ link_calls < MaxLinkCalls
  /\ link_calls' = link_calls + 1
  /\ IF ~HasEdge(a, b)
     THEN /\ adj' = AddEdge(a, b)
          /\ gnodes' = gnodes \cup {a, b}
          /\ edata' = AddEdgeData(a, b)
     ELSE UNCHANGED <<adj, gnodes, edata>>
  /\ last_call' = Returned("restore", <<a, b>>, HasEdge(a, b), "none", NeighborSets)
  /\ failed' = failed \ {Link(a, b)}
  /\ UNCHANGED <<flagVars, queueVars, statVars, agentVars, workerVars, cpc,
                 engineThreads, ipcVars, ext_puts, pause_returned, stop_returned, rx_log, pureVars>>

\* a client of NetworkNode puts a packet on the node's outbound queue
\* (tx_queue.put_nowait); nothing in the engine itself does
TxQueuePut(n, m) ==
  /\ ext_puts < MaxExt
  /\ Len(tx_queue[n]) < QueueMax
  /\ tx_queue' = [tx_queue EXCEPT ![n] = Append(@, m)]
  /\ ext_puts' = ext_puts + 1
  /\ UNCHANGED <<graphVars, flagVars, rx_queue, statVars, agentVars, workerVars, cpc,
                 engineThreads, ipcVars, last_call, link_calls, failed, pause_returned,
                 stop_returned, rx_log, pureVars>>

----------------------------------------------------------------------------
(* An agent thread: NetworkNode.run *)

\* send_packet: appends to packet_log and counts the packet; the value of
\* the outbound queue after it
SendPacketTx(n, m) == tx_queue[n]
SendPacketSent(n) == packets_sent[n] + 1
SendPacketLog(n, m) == sent_log[n] \cup {m}

\* the first statement of run()
AgentRunEntry(n) ==
  /\ apc[n] = "started"
  /\ node_running' = [node_running EXCEPT ![n] = TRUE]
  /\ apc' = [apc EXCEPT ![n] = "loop"]
  /\ UNCHANGED <<graphVars, running, paused, node_paused, queueVars, statVars, ait,
                 workerVars, cpc, engineThreads, ipcVars, histVars, pureVars>>

\* the tests `while self.running` and `if not self.paused` of one iteration
\* (a paused agent sleeps and tests again)
AgentEnters(n) == node_running[n] /\ ~node_paused[n]

AgentLoop(n) ==
  /\ apc[n] = "loop"
  /\ apc' = [apc EXCEPT ![n] = IF ~node_running[n] THEN "done"
                                ELSE IF AgentEnters(n) THEN "drain" ELSE "sleep"]
  /\ UNCHANGED <<graphVars, flagVars, queueVars, statVars, ait, workerVars, cpc,
                 engineThreads, ipcVars, histVars, pureVars>>

\* time.sleep(0.1) at the end of an iteration
AgentSleep(n) ==
  /\ apc[n] = "sleep"
  /\ apc' = [apc EXCEPT ![n] = "loop"]
  /\ UNCHANGED <<graphVars, flagVars, queueVars, statVars, ait, workerVars, cpc,
                 engineThreads, ipcVars, histVars, pureVars>>

\* _handle_packet on the head of the inbound queue: the packets sent by it.
\* An ARP request for a local address is answered; a DATA packet for another
\* node is forwarded only on a routing_table hit, and routing_table is
\* empty: nothing writes it; LINK_FAILURE, OSPF and BGP send nothing.
HandleSends(n, m) == m.kind = "ARP" /\ m.arg = n

\* _process_packets: one turn of its loop
AgentHandle(n) ==
  /\ apc[n] = "drain"
  /\ rx_queue[n] # <<>>
  /\ LET m == Head(rx_queue[n]) IN
       /\ rx_queue' = [rx_queue EXCEPT ![n] = Tail(@)]
       /\ IF HandleSends(n, m)
          THEN /\ packets_sent' = [packets_sent EXCEPT ![n] = SendPacketSent(n)]
               /\ sent_log' = [sent_log EXCEPT ![n] = SendPacketLog(n, ArpReply(n))]
               /\ tx_queue' = [tx_queue EXCEPT ![n] = SendPacketTx(n, ArpReply(n))]
          ELSE UNCHANGED <<packets_sent, sent_log, tx_queue>>
  /\ UNCHANGED <<graphVars, flagVars, packets_dropped, agentVars, workerVars, cpc,
                 engineThreads, ipcVars, histVars, pureVars>>

\* the inbound queue is empty: _periodic_tasks.  The clock test
\* `current_time % 10 < 0.1` is a free choice; an OSPF router then opens the
\* iteration over its graph neighbours
AgentPeriodic(n) ==
  /\ apc[n] = "drain"
  /\ rx_queue[n] = <<>>
  /\ \/ /\ n \in OspfRouters
        /\ packets_sent[n] + DictLen(adj[n]) <= MaxStat
        /\ ait' = [ait EXCEPT ![n] = NewIter(adj[n])]
        /\ apc' = [apc EXCEPT ![n] = "hello"]
     \/ /\ apc' = [apc EXCEPT ![n] = "sleep"]
        /\ UNCHANGED ait
  /\ UNCHANGED <<graphVars, flagVars, queueVars, statVars, workerVars, cpc,
                 engineThreads, ipcVars, histVars, pureVars>>

\* _send_hello_packets: one turn of `for neighbor in topology.neighbors(...)`
AgentHello(n) ==
  /\ apc[n] = "hello"
  /\ LET r == IterNext(adj[n], ait[n]) IN
       /\ ait' = [ait EXCEPT ![n] = IF r.res = "key" THEN r.it ELSE NoIter]
       /\ apc' = [apc EXCEPT ![n] = IF r.res = "key" THEN "hello"
                                     ELSE IF r.res = "stop" THEN "sleep" ELSE "dead"]
       /\ IF r.res = "key"
          THEN /\ packets_sent' = [packets_sent EXCEPT ![n] = SendPacketSent(n)]
               /\ sent_log' = [sent_log EXCEPT ![n] = SendPacketLog(n, HelloPacket(n))]
               /\ tx_queue' = [tx_queue EXCEPT ![n] = SendPacketTx(n, HelloPacket(n))]
          ELSE UNCHANGED <<packets_sent, sent_log, tx_queue>>
  /\ UNCHANGED <<graphVars, flagVars, rx_queue, packets_dropped, workerVars, cpc,
                 engineThreads, ipcVars, histVars, pureVars>>

Agent(n) == AgentRunEntry(n) \/ AgentLoop(n) \/ AgentSleep(n) \/ AgentHandle(n)
            \/ AgentPeriodic(n) \/ AgentHello(n)

----------------------------------------------------------------------------
(* The delivery worker thread: _route_packets and _deliver_packet *)

Sender == AgentOrder[wst.i]

\* the tests `while self.running` and `if not self.paused`
WorkerEnters == running /\ ~paused

WorkerLoop ==
  /\ wpc = "loop"
  /\ wpc' = IF ~running THEN "done" ELSE IF WorkerEnters THEN "scan" ELSE "sleep"
  /\ wst' = [wst EXCEPT !.i = IF WorkerEnters THEN 1 ELSE 0]
  /\ UNCHANGED <<graphVars, flagVars, queueVars, statVars, agentVars, cpc,
                 engineThreads, ipcVars, histVars, pureVars>>

\* time.sleep(0.01) at the end of an iteration
WorkerSleep ==
  /\ wpc = "sleep"
  /\ wpc' = "loop"
  /\ UNCHANGED <<graphVars, flagVars, queueVars, statVars, agentVars, wst, cpc,
                 engineThreads, ipcVars, histVars, pureVars>>

\* `for node_id, node in self.nodes.items()` / `while not node.tx_queue.empty()`
\* from node wst.i on: the nodes whose outbound queue is found non-empty
Pending == {j \in wst.i..Len(AgentOrder) : tx_queue[AgentOrder[j]] # <<>>}

\* a worker that takes the packet enqueued last: what C12 rules out
WorkerScanLastFirst ==
  /\ wpc = "scan"
  /\ IF Pending = {}
     THEN /\ wpc' = "sleep"
          /\ wst' = [wst EXCEPT !.i = 0]
          /\ UNCHANGED tx_queue
     ELSE LET j == CHOOSE k \in Pending : \A l \in Pending : k <= l
              s == AgentOrder[j]
              q == tx_queue[s] IN
          /\ tx_queue' = [tx_queue EXCEPT ![s] = SubSeq(q, 1, Len(q) - 1)]
          /\ wst' = [wst EXCEPT !.i = j, !.pkt = q[Len(q)], !.it = NewIter(adj[s])]
          /\ wpc' = "next"
  /\ UNCHANGED <<graphVars, flagVars, rx_queue, statVars, agentVars, cpc,
                 engineThreads, ipcVars, histVars, pureVars>>

\* up to the next get_nowait: take the packet and open the iteration over the
\* sender's neighbours; or the end of the pass (sleep)
WorkerScan ==
  /\ wpc = "scan"
  /\ IF Pending = {}
     THEN /\ wpc' = "sleep"
          /\ wst' = [wst EXCEPT !.i = 0]
          /\ UNCHANGED tx_queue
     ELSE LET j == CHOOSE k \in Pending : \A l \in Pending : k <= l
              s == AgentOrder[j] IN
          /\ tx_queue' = [tx_queue EXCEPT ![s] = Tail(@)]
          /\ wst' = [wst EXCEPT !.i = j, !.pkt = Head(tx_queue[s]),
                                !.it = NewIter(adj[s])]
          /\ wpc' = "next"
  /\ UNCHANGED <<graphVars, flagVars, rx_queue, statVars, agentVars, cpc,
                 engineThreads, ipcVars, histVars, pureVars>>

\* one turn of `for neighbor in self.topology.neighbors(sender_id)`
WorkerNext ==
  /\ wpc = "next"
  /\ LET r == IterNext(adj[Sender], wst.it) IN
       /\ wpc' = IF r.res = "key" THEN "put" ELSE IF r.res = "stop" THEN "scan" ELSE "dead"
       /\ wst' = IF r.res = "key" THEN [wst EXCEPT !.it = r.it, !.nb = r.key]
                 ELSE [wst EXCEPT !.it = NoIter, !.nb = NULL, !.pkt = NoPacket]
  /\ UNCHANGED <<graphVars, flagVars, queueVars, statVars, agentVars, cpc,
                 engineThreads, ipcVars, histVars, pureVars>>

\* a put that appends to a queue at capacity: what C11 rules out
WorkerPutOverfills ==
  /\ wpc = "put"
  /\ wst.nb \in Agents
  /\ wpc' = "next"
  /\ wst' = [wst EXCEPT !.nb = NULL]
  /\ rx_queue' = [rx_queue EXCEPT ![wst.nb] = Append(@, wst.pkt)]
  /\ rx_log' = [rx_log EXCEPT ![wst.nb] = Append(@, wst.pkt)]
  /\ UNCHANGED <<graphVars, flagVars, tx_queue, statVars, agentVars, cpc,
                 engineThreads, ipcVars, last_call, link_calls, ext_puts, failed,
                 pause_returned, stop_returned, pureVars>>

\* self.nodes[neighbor].rx_queue.put_nowait(packet): KeyError for a neighbour
\* without an agent, queue.Full counted on the sender
WorkerPut ==
  /\ wpc = "put"
  /\ IF wst.nb \notin Agents
     THEN /\ wpc' = "dead"
          /\ wst' = [wst EXCEPT !.it = NoIter, !.nb = NULL, !.pkt = NoPacket]
          /\ UNCHANGED <<rx_queue, packets_dropped, rx_log>>
     ELSE /\ wpc' = "next"
          /\ wst' = [wst EXCEPT !.nb = NULL]
          /\ IF Len(rx_queue[wst.nb]) < QueueMax
             THEN /\ rx_queue' = [rx_queue EXCEPT ![wst.nb] = Append(@, wst.pkt)]
                  /\ rx_log' = IF IsTraffic(wst.pkt)
                               THEN [rx_log EXCEPT ![wst.nb] = Append(@, wst.pkt)]
                               ELSE rx_log
                  /\ UNCHANGED packets_dropped
             ELSE /\ packets_dropped' = [packets_dropped EXCEPT ![Sender] = @ + 1]
                  /\ UNCHANGED <<rx_queue, rx_log>>
  /\ UNCHANGED <<graphVars, flagVars, tx_queue, packets_sent, sent_log, agentVars, cpc,
                 engineThreads, ipcVars, last_call, link_calls, ext_puts, failed,
                 pause_returned, stop_returned, pureVars>>

Worker == WorkerLoop \/ WorkerSleep \/ WorkerScan \/ WorkerNext \/ WorkerPut

----------------------------------------------------------------------------
(* Specifications *)

Threads == Worker \/ \E n \in Agents : Agent(n)
ClientPuts == \E n \in Agents : \E m \in ExtPackets(n) : TxQueuePut(n, m)
FaultInjection == \/ \E l \in LinkArgs : InjectRemove(l[1], l[2])
                  \/ InjectPut
                  \/ \E l \in LinkArgs : RestoreLink(l[1], l[2])

\* the engine once start_simulation has returned: every thread is started
\* and none has taken a step
InitStarted ==
  /\ adj = InitAdj
  /\ gnodes = Agents
  /\ edata = InitData
  /\ running = TRUE
  /\ paused = FALSE
  /\ node_running = [n \in Agents |-> FALSE]
  /\ node_paused = [n \in Agents |-> FALSE]
  /\ rx_queue = [n \in Agents |-> <<>>]
  /\ tx_queue = [n \in Agents |-> <<>>]
  /\ packets_sent = [n \in Agents |-> 0]
  /\ packets_dropped = [n \in Agents |-> 0]
  /\ sent_log = [n \in Agents |-> {}]
  /\ apc = [n \in Agents |-> "started"]
  /\ ait = [n \in Agents |-> NoIter]
  /\ wpc = "loop"
  /\ wst = [i |-> 0, pkt |-> NoPacket, it |-> NoIter, nb |-> NULL]
  /\ cpc = [pc |-> "idle", a |-> NULL, b |-> NULL]
  /\ ipc_server = "open"
  /\ ipc_threads = 1
  /\ worker_threads = 1
  /\ conn = "none"
  /\ hpc = "none"
  /\ inflight = <<>>
  /\ exchanges = NoExchange
  /\ last_call = [cur |-> [NoCall EXCEPT !.op = "start"], prev |-> NoCall,
                  pre |-> NeighborSets, pre_prev |-> NeighborSets]
  /\ link_calls = 0
  /\ ext_puts = 0
  /\ failed = {}
  /\ pause_returned = FALSE
  /\ stop_returned = FALSE
  /\ rx_log = [n \in Agents |-> <<>>]
  /\ prs = NotParsing
  /\ bld = NotBuilt
  /\ val = NotValidated
  /\ d1 = NoDay1
  /\ fwd = NotSent

\* the running engine under fault injection
Next == FaultInjection \/ ClientPuts \/ Threads
Spec == InitStarted /\ [][Next]_vars

\* every started thread is scheduled again and again; the caller and the
\* clients are free to stop calling
ThreadFairness == WF_vars(Worker) /\ \A n \in Agents : WF_vars(Agent(n))
FairSpec == Spec /\ ThreadFairness

\* the engine through its lifecycle, on the graph as built
NextLife == StartSimulation \/ PauseSimulation \/ ResumeSimulation \/ StopSimulation
            \/ ClientPuts \/ Threads
SpecLife == Init /\ [][NextLife]_vars
FairSpecLife == SpecLife /\ ThreadFairness

----------------------------------------------------------------------------
(* The control plane: one client connection and its handler thread         *)
(* (_handle_ipc accepts it, _handle_client serves it).  A frame is what    *)
(* one recv(1024) returns.                                                 *)

\* the classes of frames: bytes that are not UTF-8, text that is not JSON,
\* JSON that is not an object, and request objects by "type" and "node_id"
Unhashable == "unhashable"
ObjectFrame(t, id) == [form |-> "object", type |-> t, node_id |-> id]
Frames ==
  {[form |-> f, type |-> NULL, node_id |-> NULL] : f \in {"undecodable", "malformed", "nonobject"}}
  \cup {ObjectFrame("get_statistics", NULL), ObjectFrame("bogus", NULL), ObjectFrame(NULL, NULL)}
  \cup {ObjectFrame(t, id) : t \in {"pause_node", "resume_node"},
                             id \in Agents \cup {Ghost, NULL, Unhashable}}

\* data.decode(): UnicodeDecodeError, which `except json.JSONDecodeError` does not catch
DecodeRaises(f) == f.form = "undecodable"
\* json.loads: JSONDecodeError
LoadsRaises(f) == f.form = "malformed"
\* command.get on a value that is not a dict: AttributeError;
\* `node_id in self.nodes` on a node_id that is a list or an object: TypeError
CommandRaises(f) ==
  \/ f.form = "nonobject"
  \/ /\ f.form = "object"
     /\ f.type \in {"pause_node", "resume_node"}
     /\ f.node_id = Unhashable

\* _process_ipc_command: the response
IpcResponse(f) ==
  IF f.type = "get_statistics" THEN "statistics"
  ELSE IF f.type = "pause_node" /\ f.node_id \in Agents THEN "paused"
  ELSE IF f.type = "resume_node" /\ f.node_id \in Agents THEN "resumed"
  ELSE "Unknown command"

\* a pause_node / resume_node that sets the flag of every agent: what C10 rules out
IpcPausedAll(f) ==
  IF f.type = "pause_node" /\ f.node_id \in Agents
  THEN [n \in Agents |-> TRUE]
  ELSE IF f.type = "resume_node" /\ f.node_id \in Agents
  THEN [n \in Agents |-> FALSE]
  ELSE node_paused

\* _process_ipc_command: the paused flags after it (NetworkNode.pause / resume)
IpcPaused(f) ==
  IF f.type = "pause_node" /\ f.node_id \in Agents
  THEN [node_paused EXCEPT ![f.node_id] = TRUE]
  ELSE IF f.type = "resume_node" /\ f.node_id \in Agents
  THEN [node_paused EXCEPT ![f.node_id] = FALSE]
  ELSE node_paused

\* _handle_ipc: accept() while the engine runs, and the handler thread started
ClientConnect ==
  /\ conn = "none"
  /\ ipc_threads > 0 /\ running /\ ipc_server = "open"
  /\ conn' = "open"
  /\ hpc' = "check"
  /\ UNCHANGED <<graphVars, flagVars, queueVars, statVars, agentVars, workerVars, cpc,
                 engineThreads, inflight, exchanges, histVars, pureVars>>

\* the client writes one frame and waits for the answer
ClientSend(f) ==
  /\ conn = "open"
  /\ inflight = <<>>
  /\ exchanges.read < MaxFrames
  /\ inflight' = <<f>>
  /\ UNCHANGED <<graphVars, flagVars, queueVars, statVars, agentVars, workerVars, cpc,
                 engineThreads, conn, hpc, exchanges, histVars, pureVars>>

\* the client closes its end: recv returns b""
ClientClose ==
  /\ conn = "open"
  /\ inflight = <<>>
  /\ conn' = "eof"
  /\ UNCHANGED <<graphVars, flagVars, queueVars, statVars, agentVars, workerVars, cpc,
                 engineThreads, hpc, inflight, exchanges, histVars, pureVars>>

\* `while self.running` of _handle_client; leaving the loop closes the socket
HandlerCheck ==
  /\ hpc = "check"
  /\ hpc' = IF running THEN "recv" ELSE "done"
  /\ conn' = IF running THEN conn ELSE "closed"
  /\ UNCHANGED <<graphVars, flagVars, queueVars, statVars, agentVars, workerVars, cpc,
                 engineThreads, inflight, exchanges, histVars, pureVars>>

\* recv and the handling of what it returned: the response written, if any,
\* and whether the handler goes on (an exception other than JSONDecodeError
\* ends the handler and closes the socket)
HandlerRecv ==
  /\ hpc = "recv"
  /\ \/ /\ conn = "eof"
        /\ hpc' = "done"
        /\ conn' = "closed"
        /\ UNCHANGED <<inflight, exchanges, node_paused>>
     \/ /\ conn = "open"
        /\ inflight # <<>>
        /\ LET f == Head(inflight) IN
             /\ inflight' = Tail(inflight)
             /\ IF DecodeRaises(f) \/ (~LoadsRaises(f) /\ CommandRaises(f))
                THEN /\ exchanges' = [exchanges EXCEPT !.read = @ + 1, !.frame = f,
                                                       !.resp = NULL]
                     /\ hpc' = "done"
                     /\ conn' = "closed"
                     /\ UNCHANGED node_paused
                ELSE IF LoadsRaises(f)
                THEN /\ exchanges' = [read |-> exchanges.read + 1,
                                      written |-> exchanges.written + 1,
                                      frame |-> f, resp |-> "Invalid JSON"]
                     /\ hpc' = "check"
                     /\ UNCHANGED <<conn, node_paused>>
                ELSE /\ exchanges' = [read |-> exchanges.read + 1,
                                      written |-> exchanges.written + 1,
                                      frame |-> f, resp |-> IpcResponse(f)]
                     /\ node_paused' = IpcPaused(f)
                     /\ hpc' = "check"
                     /\ UNCHANGED conn
  /\ UNCHANGED <<graphVars, running, paused, node_running, queueVars, statVars,
                 agentVars, workerVars, cpc, engineThreads, histVars, pureVars>>

ControlPlane == ClientConnect \/ (\E f \in Frames : ClientSend(f)) \/ ClientClose
                \/ HandlerCheck \/ HandlerRecv

\* the control plane of an engine through its lifecycle
NextIpc == StartSimulation \/ PauseSimulation \/ ResumeSimulation \/ StopSimulation
           \/ ControlPlane
SpecIpc == Init /\ [][NextIpc]_vars

----------------------------------------------------------------------------
(* Claims about the delivery fabric and fault injection *)

WorkerGone == wpc \in {"done", "dead"}

\* C1: while the engine runs unpaused, every packet an agent passes to
\* send_packet is eventually taken by the delivery worker (to be put on the
\* inbound queue of each neighbour of the sender)
C1_SentIsEventuallyTaken ==
  \A s \in Agents : \A m \in {HelloPacket(s), ArpReply(s)} :
    (m \in sent_log[s]) ~> (wst.pkt = m \/ WorkerGone)

\* the step in which the worker places the packet it holds on r's inbound queue
WorkerPlaces(s, r) ==
  /\ wpc = "put" /\ wpc' = "next"
  /\ Sender = s /\ wst.nb = r
  /\ rx_queue'[r] = Append(rx_queue[r], wst.pkt)

\* C2: between the return of inject_link_failure(A,B) and the next
\* restore_link(A,B) the worker places no packet sent by A on B's inbound
\* queue, nor one sent by B on A's
C2_NoDeliveryOverFailedLink ==
  [][\A s \in Agents : \A r \in Agents :
       Link(s, r) \in failed => ~WorkerPlaces(s, r)]_vars

\* the step in which a call of inject_link_failure(a, b) returns
InjectReturns(a, b) ==
  /\ last_call'.cur.op = "inject" /\ last_call'.cur.args = <<a, b>>
  /\ cpc'.pc = "idle"
  /\ \/ cpc.pc = "inject_put"
     \/ cpc.pc = "idle" /\ link_calls' = link_calls + 1
\* the step in which a call of inject_link_failure(a, b) blocks in rx_queue.put
InjectBlocks(a, b) ==
  /\ cpc.pc = "idle" /\ cpc'.pc = "inject_put" /\ cpc'.a = a /\ cpc'.b = b
\* the step in which restore_link(a, b) is called (and returns)
RestoreReturns(a, b) ==
  /\ cpc.pc = "idle" /\ cpc'.pc = "idle" /\ link_calls' = link_calls + 1
  /\ last_call'.cur.op = "restore" /\ last_call'.cur.args = <<a, b>>

\* C3: for an edge A-B of the live graph, inject_link_failure(A,B) leaves
\* has_edge(A,B) false (in both directions) and adds exactly one packet to
\* the inbound queues: a LINK_FAILURE naming B, at the tail of A's queue
C3_InjectRemovesEdgeAndNotifies ==
  [][\A l \in LinkArgs :
       /\ (InjectBlocks(l[1], l[2]) => rx_queue' = rx_queue)
       /\ (InjectReturns(l[1], l[2]) /\ last_call'.cur.had_edge =>
             /\ ~HasEdge(l[1], l[2])' /\ ~HasEdge(l[2], l[1])'
             /\ rx_queue' = [rx_queue EXCEPT ![l[1]] =
                               Append(@, LinkFailurePacket(l[2]))])]_vars

\* C3 witness: inject_link_failure(A,B) has returned on an edge that was
\* present, and the LINK_FAILURE naming B is on A's inbound queue
C3_Witness ==
  /\ last_call.cur.op = "inject" /\ last_call.cur.args = <<"A", "B">>
  /\ last_call.cur.had_edge
  /\ ~HasEdge("A", "B")
  /\ rx_queue["A"] = <<LinkFailurePacket("B")>>

\* C4: inject_link_failure(a,b); restore_link(a,b) leaves has_edge(a,b) and
\* every neighbour set as they were before the two calls, whether the edge
\* was present or absent
C4_InjectRestoreRoundTrip ==
  (/\ last_call.cur.op = "restore" /\ last_call.prev.op = "inject"
   /\ last_call.cur.args = last_call.prev.args)
  => NeighborSets = last_call.pre_prev

\* C5: a second inject_link_failure(A,B) in a row changes neither the graph
\* nor any inbound queue and returns at once; a second restore_link(A,B) in
\* a row leaves the graph unchanged
C5_SecondCallChangesNothing ==
  [][\A l \in LinkArgs :
       /\ ((/\ last_call.cur.op = "inject" /\ last_call.cur.args = l
            /\ (InjectReturns(l[1], l[2]) \/ InjectBlocks(l[1], l[2])))
           => (UNCHANGED <<adj, gnodes, rx_queue>> /\ cpc'.pc = "idle"))
       /\ ((/\ last_call.cur.op = "restore" /\ last_call.cur.args = l
            /\ RestoreReturns(l[1], l[2]))
           => UNCHANGED <<adj, gnodes>>)]_vars

\* C5 witness: inject_link_failure(A,B) was called twice in a row, the first
\* call on the present edge
C5_Witness ==
  /\ last_call.cur.op = "inject" /\ last_call.prev.op = "inject"
  /\ last_call.cur.args = <<"A", "B">> /\ last_call.prev.args = <<"A", "B">>
  /\ last_call.prev.had_edge /\ ~last_call.cur.had_edge

----------------------------------------------------------------------------
(* Claims about the lifecycle *)

\* start_simulation was called on this engine before
StartedBefore == worker_threads > 0 \/ ipc_threads > 0 \/ StartRaises

\* C6: start_simulation on an engine that is running or was stopped raises
\* no error and leaves the engine as it was: the flags, and the agent,
\* worker and listener threads
C6_RestartIsNoOp ==
  [][(StartSimulation /\ StartedBefore) =>
       /\ last_call'.cur.err = "none"
       /\ UNCHANGED <<running, node_running, apc, wpc, ipc_threads,
                      worker_threads>>]_vars

\* no thread that start_simulation started is inside its main loop
ThreadsLeft ==
  /\ \A n \in Agents : apc[n] \in {"new", "done", "dead"}
  /\ wpc \in {"new", "done", "dead"}

\* C7: once stop_simulation has returned (and start_simulation is not called
\* again) every agent thread and the delivery worker eventually leave their
\* main loops
C7_StopEndsEveryThread ==
  (stop_returned /\ ~running) ~> (ThreadsLeft \/ running)

\* a step in which agent n handles an inbound message or runs its periodic tasks
AgentWorks(n) ==
  /\ apc[n] \in {"drain", "hello"}
  /\ apc'[n] # apc[n] \/ rx_queue'[n] # rx_queue[n] \/ ait'[n] # ait[n]
\* a step in which the worker takes a message off an outbound queue or puts
\* one on an inbound queue
WorkerMoves ==
  \/ wpc = "scan" /\ tx_queue' # tx_queue
  \/ wpc = "put" /\ rx_queue' # rx_queue

\* C8: between the return of pause_simulation and the next call of
\* resume_simulation no agent handles an inbound message or runs its
\* periodic tasks, and the worker moves no message
C8_PausedEngineIsQuiet ==
  [][pause_returned => ~WorkerMoves /\ \A n \in Agents : ~AgentWorks(n)]_vars

----------------------------------------------------------------------------
(* Claims about the control plane *)

\* the step in which the handler reads frame f off the connection
HandlerReads(f) ==
  /\ hpc = "recv" /\ inflight # <<>> /\ Head(inflight) = f
  /\ exchanges'.read = exchanges.read + 1

\* C9: every frame read is answered by exactly one response, "Unknown
\* command" for an unrecognised type and "Invalid JSON" for a frame that is
\* malformed, undecodable or not a JSON object, and the connection stays
\* open with the handler ready for the next frame
C9_OneResponsePerFrame ==
  [][\A f \in Frames : HandlerReads(f) =>
       /\ exchanges'.written = exchanges.written + 1
       /\ conn' = "open" /\ hpc' = "check"
       /\ (f.form # "object" => exchanges'.resp = "Invalid JSON")
       /\ (f.form = "object" /\ f.type \notin {"get_statistics", "pause_node", "resume_node"}
             => exchanges'.resp = "Unknown command")]_vars

\* the effect the claim gives a pause_node / resume_node request for node id
PausedOrResumed(f, id) ==
  /\ exchanges'.written = exchanges.written + 1
  /\ exchanges'.resp = (IF f.type = "pause_node" THEN "paused" ELSE "resumed")
  /\ node_paused' = [node_paused EXCEPT ![id] = (f.type = "pause_node")]
  /\ paused' = paused

----------------------------------------------------------------------------
(* The delivery fabric under load: a client of NetworkNode puts a burst of *)
(* DATA packets on outbound queues of a started engine; no fault injection *)

\* number of packets of the burst
MaxBurst == 3

\* tx_queue.put_nowait of the next packet of the burst on n's outbound queue
TrafficPut(n) ==
  /\ ext_puts < MaxBurst
  /\ Len(tx_queue[n]) < QueueMax
  /\ tx_queue' = [tx_queue EXCEPT ![n] = Append(@, TrafficPacket(n, ext_puts + 1))]
  /\ ext_puts' = ext_puts + 1
  /\ UNCHANGED <<graphVars, flagVars, rx_queue, statVars, agentVars, workerVars, cpc,
                 engineThreads, ipcVars, last_call, link_calls, failed, pause_returned,
                 stop_returned, rx_log, pureVars>>

NextFabric == (\E n \in Agents : TrafficPut(n)) \/ Threads
SpecFabric == InitStarted /\ [][NextFabric]_vars

----------------------------------------------------------------------------
(* Claims about the delivery fabric under load *)

\* the step in which the worker finds the inbound queue of neighbour r of
\* sender s at capacity
WorkerFindsFull(s, r) ==
  /\ wpc = "put" /\ wpc' # "put"
  /\ Sender = s /\ wst.nb = r
  /\ Len(rx_queue[r]) = QueueMax

PlacedFrom(s, r) == SelectSeq(rx_log[r], LAMBDA m : m.src = s)

\* C12: the packets of a sender s that the worker has placed on the inbound
\* queue of a receiver r were placed in the order in which s enqueued them
\* (PayloadNo is the position in the order of enqueueing)
C12_FifoPerSenderAndReceiver ==
  \A s \in Agents : \A r \in Agents :
    LET q == PlacedFrom(s, r) IN
      \A i \in 1..Len(q) : \A j \in 1..Len(q) :
        i < j => PayloadNo(q[i]) < PayloadNo(q[j])

\* C12 witness: two packets of A have reached B, enqueued with a packet of B
\* between them
C12_Witness ==
  /\ PlacedFrom("A", "B") = <<TrafficPacket("A", 1), TrafficPacket("A", 3)>>
  /\ PlacedFrom("B", "A") = <<TrafficPacket("B", 2)>>

----------------------------------------------------------------------------
(* Claims about the lifecycle: repeated calls *)

AllAgents(v) == [n \in Agents |-> v]

\* C13: stop_simulation called right after stop_simulation raises no error
\* and leaves the flags a single stop leaves (and changes none of them when
\* no thread wrote one in between); pause_simulation called right after
\* pause_simulation leaves the flags as the first call left them
C13_SecondStopOrPauseChangesNothing ==
  [][/\ ((StopSimulation /\ last_call.cur.op = "stop") =>
           /\ last_call'.cur.err = "none"
           /\ running' = FALSE /\ node_running' = AllAgents(FALSE)
           /\ UNCHANGED <<paused, node_paused, ipc_server, apc, wpc>>
           /\ (node_running = AllAgents(FALSE) => UNCHANGED flagVars))
     /\ ((PauseSimulation /\ last_call.cur.op = "pause") =>
           /\ last_call'.cur.err = "none"
           /\ paused' = TRUE /\ node_paused' = AllAgents(TRUE)
           /\ UNCHANGED <<flagVars, ipc_server, apc, wpc>>)]_vars

\* C13 witness: on a started engine stop_simulation was called twice in a
\* row, after pause_simulation had been
C13_Witness ==
  /\ last_call.cur.op = "stop" /\ last_call.prev.op = "stop"
  /\ worker_threads = 1 /\ pause_returned

----------------------------------------------------------------------------
(* Text. A Python str is modelled as the sequence of its characters, so    *)
(* that lower(), startswith(), split(), replace() and `in` are computed on *)
(* the characters as str computes them.                                    *)

UpperCase == <<"A", "B", "C", "D", "E", "F", "G", "H", "I", "J", "K", "L", "M", "N", "O", "P", "Q", "R", "S", "T", "U", "V", "W", "X", "Y", "Z">>
LowerCase == <<"a", "b", "c", "d", "e", "f", "g", "h", "i", "j", "k", "l", "m", "n", "o", "p", "q", "r", "s", "t", "u", "v", "w", "x", "y", "z">>

LowerChar(c) == IF \E i \in 1..Len(UpperCase) : UpperCase[i] = c
                THEN LowerCase[CHOOSE i \in 1..Len(UpperCase) : UpperCase[i] = c]
                ELSE c

\* s.lower()
Lower(s) == [i \in 1..Len(s) |-> LowerChar(s[i])]

\* s.startswith(p)
StartsWith(s, p) == Len(p) <= Len(s) /\ SubSeq(s, 1, Len(p)) = p

\* s.find(sub) + 1: the position of the first occurrence of sub in s, 0 if none
Find(s, sub) ==
  LET at == {i \in 1..(Len(s) - Len(sub) + 1) : SubSeq(s, i, i + Len(sub) - 1) = sub}
  IN IF Len(sub) = 0 THEN 1
     ELSE IF at = {} THEN 0
     ELSE CHOOSE i \in at : \A j \in at : i <= j

\* sub in s
Contains(s, sub) == Find(s, sub) # 0

\* s.split(c)[0]
SplitHead(s, c) ==
  LET i == Find(s, <<c>>) IN IF i = 0 THEN s ELSE SubSeq(s, 1, i - 1)

\* s.replace(old, new, 1)
ReplaceFirst(s, old, new) ==
  LET i == Find(s, old)
  IN IF i = 0 THEN s
     ELSE SubSeq(s, 1, i - 1) \o new \o SubSeq(s, i + Len(old), Len(s))

----------------------------------------------------------------------------
(* CiscoConfigParser                                                       *)

\* self.interface_types, in the order of the dict
interface_types ==
  <<[abbrev |-> <<"g", "i", "g", "a", "b", "i", "t", "e", "t", "h", "e", "r", "n", "e", "t">>,
    full |-> <<"G", "i", "g", "a", "b", "i", "t", "E", "t", "h", "e", "r", "n", "e", "t">>],
   [abbrev |-> <<"f", "a", "s", "t", "e", "t", "h", "e", "r", "n", "e", "t">>,
    full |-> <<"F", "a", "s", "t", "E", "t", "h", "e", "r", "n", "e", "t">>],
   [abbrev |-> <<"e", "t", "h", "e", "r", "n", "e", "t">>,
    full |-> <<"E", "t", "h", "e", "r", "n", "e", "t">>],
   [abbrev |-> <<"s", "e", "r", "i", "a", "l">>,
    full |-> <<"S", "e", "r", "i", "a", "l">>],
   [abbrev |-> <<"l", "o", "o", "p", "b", "a", "c", "k">>,
    full |-> <<"L", "o", "o", "p", "b", "a", "c", "k">>],
   [abbrev |-> <<"v", "l", "a", "n">>,
    full |-> <<"V", "L", "A", "N">>],
   [abbrev |-> <<"t", "u", "n", "n", "e", "l">>,
    full |-> <<"T", "u", "n", "n", "e", "l">>],
   [abbrev |-> <<"p", "o", "r", "t", "c", "h", "a", "n", "n", "e", "l">>,
    full |-> <<"P", "o", "r", "t", "-", "C", "h", "a", "n", "n", "e", "l">>]>>

RECURSIVE NormalizeFrom(_, _)
NormalizeFrom(name, k) ==
  IF k > Len(interface_types) THEN name
  ELSE IF StartsWith(Lower(name), interface_types[k].abbrev)
       THEN ReplaceFirst(name, SplitHead(name, "/"), interface_types[k].full)
       ELSE NormalizeFrom(name, k + 1)

\* _normalize_interface_name (names are written without surrounding blanks)
NormalizeInterfaceName(name) == NormalizeFrom(name, 1)

\* _default_bandwidth
DefaultBandwidth(iface_name) ==
  LET name == Lower(iface_name)
  IN IF Contains(name, interface_types[1].abbrev) THEN 1000000
     ELSE IF Contains(name, interface_types[2].abbrev) THEN 100000
     ELSE IF Contains(name, interface_types[4].abbrev) THEN 1544
     ELSE IF Contains(name, interface_types[5].abbrev) THEN 8000000
     ELSE 10000

\* Interface names a configuration may carry: a family (its index in
\* interface_types), the spelling of the family or of its abbreviation, and
\* the unit numbering.
NoIface == [fam |-> 0, pre |-> <<>>, unit |-> <<>>]
IfaceInputs ==
  {[fam |-> 1, pre |-> <<"g", "i">>, unit |-> <<"0", "/", "0">>],
   [fam |-> 1, pre |-> <<"G", "i">>, unit |-> <<"0", "/", "0">>],
   [fam |-> 1, pre |-> <<"g", "i", "g", "a", "b", "i", "t", "e", "t", "h", "e", "r", "n", "e", "t">>, unit |-> <<"0", "/", "0">>],
   [fam |-> 1, pre |-> <<"G", "i", "g", "a", "b", "i", "t", "E", "t", "h", "e", "r", "n", "e", "t">>, unit |-> <<"0", "/", "0">>],
   [fam |-> 2, pre |-> <<"F", "a">>, unit |-> <<"0", "/", "1">>],
   [fam |-> 4, pre |-> <<"S", "e", "r", "i", "a", "l">>, unit |-> <<"0", "/", "0", "/", "0">>],
   [fam |-> 5, pre |-> <<"L", "o", "o", "p", "b", "a", "c", "k">>, unit |-> <<"0">>]}
IfaceName(i) == i.pre \o i.unit

\* the longest configuration parsed, in lines
MaxLines == 3

\* A line of the configuration after strip(): its blank-separated words
\* (directive words are written in lower case) and, for an interface line,
\* the name that follows "interface ".
Line(t) == [t |-> t, iface |-> NoIface]
InterfaceLine(i) == [t |-> <<"interface", "name">>, iface |-> i]
NeighborLine == Line(<<"neighbor", "10.0.0.2", "remote-as", "65002">>)
NeighborLineTrailing == Line(<<"neighbor", "10.0.0.2", "remote-as", "65002", "x">>)
UnknownLine == Line(<<"foo", "bar">>)
ConfigLines ==
  {Line(<<"!">>), Line(<<"hostname", "R1">>), Line(<<"ip", "address", "10.0.0.1", "255.255.255.0">>),
   Line(<<"bandwidth", "64">>), Line(<<"bandwidth", "-5">>), Line(<<"shutdown">>),
   Line(<<"router", "ospf", "1">>), Line(<<"network", "10.0.0.0", "0.0.0.255", "area", "0">>),
   Line(<<"router", "bgp", "65001">>), Line(<<"router", "bgp">>),
   NeighborLine, NeighborLineTrailing,
   Line(<<"neighbor", "10.0.0.2", "remote-as">>), Line(<<"neighbor", "10.0.0.2", "shutdown">>),
   Line(<<"vlan", "10">>), Line(<<"vlan", "²">>),
   Line(<<"ip", "route", "0.0.0.0", "0.0.0.0", "10.0.0.254">>), UnknownLine}
  \cup {InterfaceLine(i) : i \in IfaceInputs}

\* str.isdigit() and int() on the words used: "²" is a digit for isdigit()
\* and no numeral for int()
Numerals == {"0", "1", "10", "64", "-5", "65001", "65002"}
IsDigit(w) == w \in (Numerals \ {"-5"}) \cup {"²"}
IntRaises(w) == w \notin Numerals
IntOf(w) == CASE w = "0" -> 0 [] w = "1" -> 1 [] w = "10" -> 10 [] w = "64" -> 64
              [] w = "-5" -> 0 - 5 [] w = "65001" -> 65001 [] w = "65002" -> 65002

\* _safe_get(lst, idx)
SafeGet(lst, idx) == IF Len(lst) > idx THEN lst[idx + 1] ELSE NULL

\* the record and the locals at the head of the loop of parse_config; an
\* as_number of 0 stands for None, curr_iface tells whether curr_iface is set
\* (it is then the last element of interfaces)
ParseStart ==
  [pc |-> "loop", n |-> 0, last |-> Line(<<>>),
   hostname |-> NULL, device_type |-> "router", interfaces |-> <<>>, vlans |-> <<>>,
   ospf |-> [enabled |-> FALSE, networks |-> <<>>],
   bgp |-> [enabled |-> FALSE, as_number |-> 0, neighbors |-> <<>>],
   gateway_of_last_resort |-> NULL,
   curr_iface |-> FALSE, in_ospf |-> FALSE, in_bgp |-> FALSE]

\* the record parse_config builds, without the locals
Parsed(st) == [hostname |-> st.hostname, device_type |-> st.device_type,
               interfaces |-> st.interfaces, vlans |-> st.vlans, ospf |-> st.ospf,
               bgp |-> st.bgp, gateway_of_last_resort |-> st.gateway_of_last_resort]

NewInterface(iface_name) ==
  [name |-> iface_name, ip_address |-> NULL, subnet_mask |-> NULL,
   bandwidth_kbps |-> DefaultBandwidth(iface_name), status |-> "up"]

\* an exception leaves parse_config
Raised(st) == [st EXCEPT !.pc = "raised"]

\* lines 112-128: the parameters of the current interface
InterfaceParameters(st, parts) ==
  LET cur == Len(st.interfaces)
  IN IF parts[1] = "bandwidth" /\ Len(parts) >= 2
     THEN IF IntRaises(SafeGet(parts, 1)) THEN st
          ELSE [st EXCEPT !.interfaces[cur].bandwidth_kbps = IntOf(SafeGet(parts, 1))]
     ELSE IF parts = <<"shutdown">> THEN [st EXCEPT !.interfaces[cur].status = "down"]
     ELSE IF parts = <<"no", "shutdown">> THEN [st EXCEPT !.interfaces[cur].status = "up"]
     ELSE st

\* lines 137-152: inside the OSPF block
OspfBlock(st, parts) ==
  IF parts[1] = "network" /\ Len(parts) >= 2
  THEN IF Len(parts) >= 5 /\ parts[4] = "area"
       THEN [st EXCEPT !.ospf.networks =
               Append(@, [ip |-> parts[2], wildcard |-> parts[3], area |-> parts[4]])]
       ELSE st
  ELSE st

\* lines 165-172: inside the BGP block; parts[4] of the source is the fifth word
BgpBlock(st, parts) ==
  IF parts[1] = "neighbor" /\ Len(parts) >= 2
  THEN IF Len(parts) >= 4 /\ parts[3] = "remote-as"
       THEN IF Len(parts) < 5 THEN Raised(st)
            ELSE [st EXCEPT !.bgp.neighbors = Append(@, [ip |-> parts[2], remote_as |-> parts[5]])]
       ELSE st
  ELSE st

\* lines 175-184
VlanLine(st, parts) ==
  IF parts[1] = "vlan" /\ Len(parts) >= 2
  THEN LET vlan_id == SafeGet(parts, 1)
       IN IF IsDigit(vlan_id)
          THEN IF IntRaises(vlan_id) THEN Raised(st)
               ELSE [st EXCEPT !.vlans = Append(@, [id |-> IntOf(vlan_id), state |-> "active"])]
          ELSE st
  ELSE st

\* lines 187-188
GatewayLine(st, parts) ==
  IF Len(parts) >= 4 /\ SubSeq(parts, 1, 4) = <<"ip", "route", "0.0.0.0", "0.0.0.0">>
  THEN [st EXCEPT !.gateway_of_last_resort = SafeGet(parts, 4)]
  ELSE st

\* the regular expression of line 107
IpAddressMatch(parts) == Len(parts) >= 4 /\ parts[1] = "ip" /\ parts[2] = "address"

\* one iteration of the loop of parse_config (lines 67-188) on line l
ParseStep(st, l) ==
  LET parts == l.t
      cur == Len(st.interfaces)
  IN
  IF parts[1] = "!" THEN st
  ELSE IF parts[1] = "hostname" /\ Len(parts) >= 2
  THEN [st EXCEPT !.hostname = SafeGet(parts, 1)]
  ELSE IF parts[1] = "interface" /\ Len(parts) >= 2
  THEN [st EXCEPT !.interfaces = Append(@, NewInterface(NormalizeInterfaceName(IfaceName(l.iface)))),
                  !.curr_iface = TRUE]
  ELSE IF st.curr_iface /\ IpAddressMatch(parts)
  THEN [st EXCEPT !.interfaces[cur].ip_address = parts[3],
                  !.interfaces[cur].subnet_mask = parts[4]]
  ELSE
  LET s1 == IF st.curr_iface THEN InterfaceParameters(st, parts) ELSE st
  IN
  IF Len(parts) >= 2 /\ parts[1] = "router" /\ parts[2] = "ospf"
  THEN [s1 EXCEPT !.ospf.enabled = TRUE, !.in_ospf = TRUE, !.in_bgp = FALSE]
  ELSE
  LET s2 == IF s1.in_ospf THEN OspfBlock(s1, parts) ELSE s1
  IN
  IF Len(parts) >= 2 /\ parts[1] = "router" /\ parts[2] = "bgp"
  THEN [s2 EXCEPT !.bgp.enabled = TRUE,
                  !.bgp.as_number = IF IntRaises(SafeGet(parts, 2)) THEN @
                                    ELSE IntOf(SafeGet(parts, 2)),
                  !.in_bgp = TRUE, !.in_ospf = FALSE]
  ELSE
  LET s3 == IF s2.in_bgp THEN BgpBlock(s2, parts) ELSE s2
  IN
  IF s3.pc = "raised" THEN s3
  ELSE LET s4 == VlanLine(s3, parts)
       IN IF s4.pc = "raised" THEN s4 ELSE GatewayLine(s4, parts)

\* the offline pipeline leaves the engine alone
engineVars == <<graphVars, flagVars, queueVars, statVars, agentVars, workerVars, cpc,
                engineThreads, ipcVars, histVars>>

\* parse_config(config_text) is called
ParseConfig ==
  /\ prs.pc \in {"idle", "returned", "raised"}
  /\ prs' = ParseStart
  /\ UNCHANGED <<engineVars, fwd, bld, val, d1>>

\* the loop reads the next line of config_text
ParseLine(l) ==
  /\ prs.pc = "loop"
  /\ prs.n < MaxLines
  /\ prs' = ParseStep([prs EXCEPT !.n = @ + 1, !.last = l], l)
  /\ UNCHANGED <<engineVars, fwd, bld, val, d1>>

\* lines 190-198: the text is exhausted, the device type is set and the record returned
ParseReturn ==
  /\ prs.pc = "loop"
  /\ prs' = [prs EXCEPT !.pc = "returned",
                        !.device_type = IF prs.ospf.enabled \/ prs.bgp.enabled
                                        THEN "router" ELSE "pc"]
  /\ UNCHANGED <<engineVars, fwd, bld, val, d1>>

NextParse == ParseConfig \/ (\E l \in ConfigLines : ParseLine(l)) \/ ParseReturn
SpecParse == Init /\ [][NextParse]_vars

----------------------------------------------------------------------------
(* Claims about the parser                                                 *)

\* the loop of parse_config has read line l
ParseReads(l) == prs.pc = "loop" /\ prs'.pc \in {"loop", "raised"} /\ prs'.last = l
                 /\ prs'.n = prs.n + 1

\* C14: parse_config returns a record for every text: no sequence of lines
\* makes the parse fail, and a line that matches no directive leaves the
\* record unchanged.
C14_EveryTextIsParsed ==
  /\ [](prs.pc # "raised")
  /\ [][ParseReads(UnknownLine) => Parsed(prs') = Parsed(prs)]_vars

\* C15: inside an open BGP block a line `neighbor P remote-as R` appends
\* exactly the entry {P, R} to the neighbour list and the parse goes on with
\* the next line.
C15_NeighborLineAppendsPeerAndAs ==
  [][(ParseReads(NeighborLine) /\ prs.in_bgp) =>
       (/\ prs'.pc = "loop"
        /\ prs'.bgp.neighbors = Append(prs.bgp.neighbors,
                                       [ip |-> NeighborLine.t[2], remote_as |-> NeighborLine.t[4]]))]_vars

\* the canonical spelling of the family of i followed by the unit numbering of i
CanonicalName(i) == interface_types[i.fam].full \o i.unit

\* C16: an interface named by a family or an abbreviation of it, in any
\* letter case, followed by unit numbering is stored under the canonical
\* spelling of the family followed by the same unit numbering.
C16_InterfaceNameIsCanonical ==
  [][\A i \in IfaceInputs :
       ParseReads(InterfaceLine(i)) =>
         prs'.interfaces[Len(prs'.interfaces)].name = CanonicalName(i)]_vars

----------------------------------------------------------------------------
(* topology_builder                                                        *)

\* The device records given to build_from_configs, in the order of the
\* dict: the first k of Devices, each with one interface.  An interface
\* carries its name as the parser stores it, its address, the network
\* str(ipaddress.ip_network(ip/mask)) of that address, its bandwidth (the key
\* may be absent) and its status; a device carries its OSPF flag and the peer
\* addresses of its BGP neighbour statements.
Devices == <<"R1", "R2">>
Subnets == {<<"1", "0", ".", "0", ".", "0", ".", "0", "/", "2", "4">>, <<"1", "0", ".", "0", ".", "1", ".", "0", "/", "2", "4">>}
IfaceNames == {<<"G", "i", "g", "a", "b", "i", "t", "E", "t", "h", "e", "r", "n", "e", "t", "/", "0">>, <<"T", "u", "n", "n", "e", "l", "-", "O", "S", "P", "F">>}
BandwidthInputs == {0 - 5, 0, 1, 1544, 8000000}

\* the address of device dev on network net
AddressOn(dev, net) == <<dev, net>>

InterfaceInputs(names, bandwidths) ==
  [name : names, subnet : Subnets, has_bandwidth : {TRUE}, bandwidth_kbps : bandwidths,
   status : {"up", "down"}]
  \cup [name : names, subnet : Subnets, has_bandwidth : {FALSE}, bandwidth_kbps : {0},
        status : {"up", "down"}]

Other(dev) == IF dev = Devices[1] THEN Devices[2] ELSE Devices[1]

DeviceInputs(dev, names, bandwidths) ==
  [dev : {dev}, interfaces : {<<i>> : i \in InterfaceInputs(names, bandwidths)},
   ospf_enabled : BOOLEAN,
   bgp_neighbors : {<<>>, <<AddressOn(Other(dev), <<"1", "0", ".", "0", ".", "0", ".", "0", "/", "2", "4">>)>>}]

ConfigsOver(names, bandwidths) ==
  {<<>>} \cup {<<c1>> : c1 \in DeviceInputs(Devices[1], names, bandwidths)}
         \cup {<<c1, c2>> : c1 \in DeviceInputs(Devices[1], names, bandwidths),
                            c2 \in DeviceInputs(Devices[2], names, bandwidths)}

\* the records given to the builder: every bandwidth, one interface name
ConfigInputs == ConfigsOver({<<"G", "i", "g", "a", "b", "i", "t", "E", "t", "h", "e", "r", "n", "e", "t", "/", "0">>}, BandwidthInputs)

\* iface.get("ip_address")
IpAddress(dev, iface) == AddressOn(dev, iface.subnet)

\* iface.get("bandwidth_kbps", 0)
BandwidthOf(iface) == IF iface.has_bandwidth THEN iface.bandwidth_kbps ELSE 0

\* _calculate_ospf_cost; a \div b is Python's a // b for b > 0
Min(a, b) == IF a <= b THEN a ELSE b
Max(a, b) == IF a >= b THEN a ELSE b
CalculateOspfCostUnclamped(bandwidth_kbps) ==
  IF bandwidth_kbps = 0 \/ bandwidth_kbps <= 0 THEN 65535
  ELSE Max(1, 100000 \div bandwidth_kbps)
CalculateOspfCost(bandwidth_kbps) ==
  IF bandwidth_kbps = 0 \/ bandwidth_kbps <= 0 THEN 65535
  ELSE Max(1, Min(100000 \div bandwidth_kbps, 65535))

\* topo.has_edge(u, v) on the list of edges added so far
TopoHasEdge(edges, u, v) ==
  \E k \in 1..Len(edges) : {edges[k].u, edges[k].v} = {u, v}

\* the f-string of line 162; a decimal numeral is written "#" (it holds no letter)
SubnetTitle(subnet, iface1, iface2) ==
  <<"S", "u", "b", "n", "e", "t", ":", " ">> \o subnet \o <<" ", "b", "e", "t", "w", "e", "e", "n", " ">> \o iface1.name \o <<" ", "a", "n", "d", " ">> \o iface2.name
  \o <<" ", "-", " ", "B", "a", "n", "d", "w", "i", "d", "t", "h", ":", " ">> \o <<"#">> \o <<" ", "M", "b", "p", "s", ",", " ", "C", "o", "s", "t", ":", " ">> \o <<"#">>

SubnetEdge(dev1, iface1, dev2, iface2) ==
  LET bw == Min(BandwidthOf(iface1), BandwidthOf(iface2))
  IN [u |-> dev1, v |-> dev2, link_type |-> "subnet", has_cost |-> TRUE,
      cost |-> CalculateOspfCost(bw), bandwidth_kbps |-> bw,
      title |-> SubnetTitle(iface1.subnet, iface1, iface2)]

\* lines 135-148: the (device, interface) pairs that enter subnet_map, in order
RECURSIVE SubnetEntries(_, _)
SubnetEntries(configs, k) ==
  IF k > Len(configs) THEN <<>>
  ELSE LET cfg == configs[k]
       IN SelectSeq([i \in 1..Len(cfg.interfaces) |-> [dev |-> cfg.dev, iface |-> cfg.interfaces[i]]],
                    LAMBDA e : e.iface.status # "down")
          \o SubnetEntries(configs, k + 1)

\* the keys of subnet_map, in the order in which they were inserted
RECURSIVE SubnetKeys(_, _, _)
SubnetKeys(entries, k, keys) ==
  IF k > Len(entries) THEN keys
  ELSE SubnetKeys(entries, k + 1,
                  IF \E m \in 1..Len(keys) : keys[m] = entries[k].iface.subnet THEN keys
                  ELSE Append(keys, entries[k].iface.subnet))

\* lines 153-172: the pairs i < j of the devices of one subnet
RECURSIVE PairLinksFrom(_, _, _, _)
PairLinksFrom(devices, i, j, edges) ==
  IF i > Len(devices) THEN edges
  ELSE IF j > Len(devices) THEN PairLinksFrom(devices, i + 1, i + 2, edges)
  ELSE LET e1 == devices[i]
           e2 == devices[j]
       IN IF ~TopoHasEdge(edges, e1.dev, e2.dev)
          THEN PairLinksFrom(devices, i, j + 1,
                             Append(edges, SubnetEdge(e1.dev, e1.iface, e2.dev, e2.iface)))
          ELSE PairLinksFrom(devices, i, j + 1, edges)

\* lines 150-152: the loop over subnet_map.items()
RECURSIVE IpLinksFrom(_, _, _, _)
IpLinksFrom(entries, keys, s, edges) ==
  IF s > Len(keys) THEN edges
  ELSE IpLinksFrom(entries, keys, s + 1,
                   PairLinksFrom(SelectSeq(entries, LAMBDA e : e.iface.subnet = keys[s]), 1, 2, edges))

\* _discover_ip_links (no record carries is_host_segment)
DiscoverIpLinks(configs) ==
  LET entries == SubnetEntries(configs, 1)
  IN IpLinksFrom(entries, SubnetKeys(entries, 1, <<>>), 1, <<>>)

\* _have_shared_subnet: every interface counts, whatever its status
HaveSharedSubnet(cfg1, cfg2) ==
  \E i \in 1..Len(cfg1.interfaces) : \E j \in 1..Len(cfg2.interfaces) :
    cfg1.interfaces[i].subnet = cfg2.interfaces[j].subnet

OspfEdge(dev1, dev2) ==
  [u |-> dev1, v |-> dev2, link_type |-> "ospf", has_cost |-> TRUE, cost |-> 1,
   bandwidth_kbps |-> 0, title |-> <<"O", "S", "P", "F", " ", "L", "i", "n", "k">>]

\* _discover_ospf_links
RECURSIVE OspfLinksFrom(_, _, _, _)
OspfLinksFrom(ospf_devices, i, j, edges) ==
  IF i > Len(ospf_devices) THEN edges
  ELSE IF j > Len(ospf_devices) THEN OspfLinksFrom(ospf_devices, i + 1, i + 2, edges)
  ELSE LET c1 == ospf_devices[i]
           c2 == ospf_devices[j]
       IN IF ~TopoHasEdge(edges, c1.dev, c2.dev) /\ HaveSharedSubnet(c1, c2)
          THEN OspfLinksFrom(ospf_devices, i, j + 1, Append(edges, OspfEdge(c1.dev, c2.dev)))
          ELSE OspfLinksFrom(ospf_devices, i, j + 1, edges)

DiscoverOspfLinks(configs, edges) ==
  OspfLinksFrom(SelectSeq(configs, LAMBDA c : c.ospf_enabled), 1, 2, edges)

BgpEdge(dev, other_dev) ==
  [u |-> dev, v |-> other_dev, link_type |-> "bgp", has_cost |-> FALSE, cost |-> 0,
   bandwidth_kbps |-> 0, title |-> <<"B", "G", "P", " ", "L", "i", "n", "k", " ", "A", "S">>]

\* _discover_bgp_links: device k, its neighbour statement n, the other device o
RECURSIVE BgpLinksFrom(_, _, _, _, _)
BgpLinksFrom(configs, k, n, o, edges) ==
  IF k > Len(configs) THEN edges
  ELSE IF n > Len(configs[k].bgp_neighbors) THEN BgpLinksFrom(configs, k + 1, 1, 1, edges)
  ELSE IF o > Len(configs) THEN BgpLinksFrom(configs, k, n + 1, 1, edges)
  ELSE LET dev == configs[k].dev
           other == configs[o]
       IN IF /\ other.dev # dev
             /\ \E i \in 1..Len(other.interfaces) :
                  IpAddress(other.dev, other.interfaces[i]) = configs[k].bgp_neighbors[n]
             /\ ~TopoHasEdge(edges, dev, other.dev)
          THEN BgpLinksFrom(configs, k, n, o + 1, Append(edges, BgpEdge(dev, other.dev)))
          ELSE BgpLinksFrom(configs, k, n, o + 1, edges)

DiscoverBgpLinks(configs, edges) == BgpLinksFrom(configs, 1, 1, 1, edges)

\* build_from_configs: the nodes and the edges of the graph it returns (the
\* records carry no description, so _discover_desc_links adds nothing;
\* _calculate_link_metrics adds attributes no definition here reads)
BuildEdges(configs) ==
  DiscoverBgpLinks(configs, DiscoverOspfLinks(configs, DiscoverIpLinks(configs)))
BuildNodes(configs) == {configs[k].dev : k \in 1..Len(configs)}

\* build_from_configs(configs) is called and returns its graph
BuildFromConfigs(configs) ==
  /\ bld.pc = "idle"
  /\ bld' = [pc |-> "built", configs |-> configs, nodes |-> BuildNodes(configs),
             edges |-> BuildEdges(configs)]
  /\ UNCHANGED <<engineVars, fwd, prs, val, d1>>

NextBuild == \E configs \in ConfigInputs : BuildFromConfigs(configs)
SpecBuild == Init /\ [][NextBuild]_vars

----------------------------------------------------------------------------
(* Claims about the topology builder                                       *)

\* floor(a / b) for b # 0
FloorDiv(a, b) == IF b > 0 THEN a \div b ELSE (0 - a) \div (0 - b)
Clamp(x, lo, hi) == IF x < lo THEN lo ELSE IF x > hi THEN hi ELSE x

\* the interface of device dev in the records given to the builder
IfaceOf(dev) ==
  LET k == CHOOSE k \in 1..Len(bld.configs) : bld.configs[k].dev = dev
  IN bld.configs[k].interfaces[1]

\* the bandwidth of a subnet edge is known when both its interfaces carry one
BandwidthKnown(e) == IfaceOf(e.u).has_bandwidth /\ IfaceOf(e.v).has_bandwidth
SmallerBandwidth(e) == Min(IfaceOf(e.u).bandwidth_kbps, IfaceOf(e.v).bandwidth_kbps)

SubnetEdges == {k \in 1..Len(bld.edges) : bld.edges[k].link_type = "subnet"}
CostInRange == \A k \in 1..Len(bld.edges) :
                 bld.edges[k].has_cost => bld.edges[k].cost \in 1..65535

\* C17 as stated: every subnet edge carries clamp(floor(100000 / b), 1, 65535)
\* for the smaller bandwidth b of its interfaces, and 65535 when b is zero or
\* unknown; every cost is in [1, 65535].
C17_CostIsClampedQuotient ==
  bld.pc = "built" =>
    /\ \A k \in SubnetEdges :
         LET e == bld.edges[k]
         IN e.cost = IF ~BandwidthKnown(e) \/ SmallerBandwidth(e) = 0 THEN 65535
                     ELSE Clamp(FloorDiv(100000, SmallerBandwidth(e)), 1, 65535)
    /\ CostInRange

\* C17 amended: the quotient is used for b > 0 only; a bandwidth that is
\* zero, negative or unknown gives 65535.
C17_CostIsClampedQuotientForPositive ==
  bld.pc = "built" =>
    /\ \A k \in SubnetEdges :
         LET e == bld.edges[k]
         IN e.cost = IF ~BandwidthKnown(e) \/ SmallerBandwidth(e) <= 0 THEN 65535
                     ELSE Clamp(FloorDiv(100000, SmallerBandwidth(e)), 1, 65535)
    /\ CostInRange

\* a T1 against a faster interface: cost 64
C17_Witness ==
  /\ bld.pc = "built"
  /\ \E k \in SubnetEdges : bld.edges[k].cost = 64 /\ bld.edges[k].bandwidth_kbps = 1544

----------------------------------------------------------------------------
(* NetworkValidator._check_duplicate_ips                                   *)

\* The records given to the validator, in the order of the dict: three
\* devices, the first with two interfaces.  An interface carries an address
\* (or "dhcp") and an access VLAN: "absent" when the record has no
\* access_vlan key, "None" as the parser stores it, or a VLAN id.
ValidatedDevices == <<"D1", "D2", "D3">>
AddressInputs == {"10.0.0.1", "10.0.0.2", "dhcp"}
VlanInputs == {"absent", "None", "10"}
ValidatedInterfaces == [ip_address : AddressInputs, access_vlan : VlanInputs]
ValidatorInputs ==
  {<<[device |-> ValidatedDevices[1], interfaces |-> <<i1, i2>>],
     [device |-> ValidatedDevices[2], interfaces |-> <<i3>>],
     [device |-> ValidatedDevices[3], interfaces |-> <<i4>>]>> :
   i1 \in ValidatedInterfaces, i2 \in ValidatedInterfaces,
   i3 \in ValidatedInterfaces, i4 \in ValidatedInterfaces}

\* iface.get("access_vlan", "default"), as f"{vlan}" writes it
VlanOf(iface) == IF iface.access_vlan = "absent" THEN "default" ELSE iface.access_vlan

\* f"{ip}_{vlan}"
IpVlanKey(iface) == <<iface.ip_address, VlanOf(iface)>>

\* lines 56-66: device d, its interface i; ip_vlan_map as the list of its
\* (key, device) entries
RECURSIVE CheckFrom(_, _, _, _, _)
CheckFrom(configs, d, i, ip_vlan_map, issues) ==
  IF d > Len(configs) THEN issues
  ELSE IF i > Len(configs[d].interfaces) THEN CheckFrom(configs, d + 1, 1, ip_vlan_map, issues)
  ELSE LET iface == configs[d].interfaces[i]
           key == IpVlanKey(iface)
           held == {k \in 1..Len(ip_vlan_map) : ip_vlan_map[k].key = key}
       IN IF iface.ip_address # "dhcp"
          THEN IF held # {}
               THEN CheckFrom(configs, d, i + 1, ip_vlan_map,
                              Append(issues, [ip |-> iface.ip_address, vlan |-> VlanOf(iface),
                                              first |-> ip_vlan_map[CHOOSE k \in held : TRUE].device,
                                              second |-> configs[d].device]))
               ELSE CheckFrom(configs, d, i + 1,
                              Append(ip_vlan_map, [key |-> key, device |-> configs[d].device]), issues)
          ELSE CheckFrom(configs, d, i + 1, ip_vlan_map, issues)

\* _check_duplicate_ips() on the records configs
CheckDuplicateIps(configs) ==
  /\ val.pc = "idle"
  /\ val' = [pc |-> "returned", configs |-> configs,
             issues |-> CheckFrom(configs, 1, 1, <<>>, <<>>)]
  /\ UNCHANGED <<engineVars, fwd, prs, bld, d1>>

NextValidate == \E configs \in ValidatorInputs : CheckDuplicateIps(configs)
SpecValidate == Init /\ [][NextValidate]_vars

----------------------------------------------------------------------------
(* Claims about the validator                                              *)

\* the interfaces of the records: device index and interface index
ValidatedPositions ==
  {p \in (1..Len(val.configs)) \X (1..2) : p[2] <= Len(val.configs[p[1]].interfaces)}
IfaceAt(p) == val.configs[p[1]].interfaces[p[2]]
DeviceAt(p) == val.configs[p[1]].device

\* two non-DHCP interfaces on different devices with the same address and scope
SharePair(p, q) ==
  /\ p[1] # q[1]
  /\ IfaceAt(p).ip_address # "dhcp" /\ IfaceAt(q).ip_address # "dhcp"
  /\ IpVlanKey(IfaceAt(p)) = IpVlanKey(IfaceAt(q))

\* the findings for an address and scope that name exactly the devices a and b
FindingsNaming(key, a, b) ==
  {k \in 1..Len(val.issues) : /\ <<val.issues[k].ip, val.issues[k].vlan>> = key
                              /\ {val.issues[k].first, val.issues[k].second} = {a, b}}

\* C18: each pair of non-DHCP interfaces on two different devices that share
\* (address, access VLAN or default) gives exactly one duplicate-IP finding
\* naming both devices; equal addresses in different VLANs give none.
C18_OneFindingPerSharingPair ==
  val.pc = "returned" =>
    /\ \A p \in ValidatedPositions : \A q \in ValidatedPositions :
         SharePair(p, q) =>
           Cardinality(FindingsNaming(IpVlanKey(IfaceAt(p)), DeviceAt(p), DeviceAt(q))) = 1
    /\ \A k \in 1..Len(val.issues) :
         \E p \in ValidatedPositions : \E q \in ValidatedPositions :
           /\ p # q
           /\ IpVlanKey(IfaceAt(p)) = <<val.issues[k].ip, val.issues[k].vlan>>
           /\ IpVlanKey(IfaceAt(q)) = <<val.issues[k].ip, val.issues[k].vlan>>

----------------------------------------------------------------------------
(* Day1Simulator                                                           *)

\* the records Day 1 is run on: both interface names, one bandwidth
Day1Inputs == ConfigsOver(IfaceNames, {1544})

\* list(self.topo.neighbors(dev)) with the link type of each edge
TopoNeighbors(edges, dev) ==
  LET touching == SelectSeq(edges, LAMBDA e : dev \in {e.u, e.v})
  IN [k \in 1..Len(touching) |->
        [nbr |-> IF touching[k].u = dev THEN touching[k].v ELSE touching[k].u,
         link_type |-> touching[k].link_type]]

\* the elements of a list
Elements(s) == {s[k] : k \in 1..Len(s)}

\* the loop of trigger_ospf and of trigger_bgp over the edges selected by sel
RECURSIVE FormNeighbors(_, _, _, _)
FormNeighbors(edges, k, sel, neighbors) ==
  IF k > Len(edges) THEN neighbors
  ELSE FormNeighbors(edges, k + 1, sel,
                     IF k \in sel
                     THEN [neighbors EXCEPT ![edges[k].u] = Append(@, edges[k].v),
                                            ![edges[k].v] = Append(@, edges[k].u)]
                     ELSE neighbors)

\* line 38: data.get("link_type") == "subnet" and "ospf" in data.get("title", "").lower()
OspfAdjacencyEdges(edges) ==
  {k \in 1..Len(edges) : /\ edges[k].link_type = "subnet"
                         /\ Contains(Lower(edges[k].title), <<"o", "s", "p", "f">>)}

\* Day1Simulator(topology, configs) on the graph the builder returned, and run() begins
Day1Run ==
  /\ bld.pc = "built"
  /\ d1.pc = "idle"
  /\ d1' = [pc |-> "bring_up", configs |-> bld.configs,
            arp_tables |-> [dev \in bld.nodes |-> {}],
            ospf_neighbors |-> [dev \in bld.nodes |-> <<>>],
            bgp_neighbors |-> [dev \in bld.nodes |-> <<>>],
            failures |-> <<>>]
  /\ UNCHANGED <<engineVars, fwd, prs, bld, val>>

\* bring_up_interfaces
BringUpInterfaces ==
  /\ d1.pc = "bring_up"
  /\ d1' = [d1 EXCEPT !.pc = "populate_arp",
                      !.configs = [k \in 1..Len(@) |->
                                     [@[k] EXCEPT !.interfaces =
                                        [i \in 1..Len(@) |-> [@[i] EXCEPT !.status = "up"]]]]]
  /\ UNCHANGED <<engineVars, fwd, prs, bld, val>>

\* populate_arp (after wait_stabilization): one entry per graph neighbour
PopulateArp ==
  /\ d1.pc = "populate_arp"
  /\ d1' = [d1 EXCEPT !.pc = "trigger_ospf",
                      !.arp_tables = [dev \in bld.nodes |->
                                        {n.nbr : n \in Elements(TopoNeighbors(bld.edges, dev))}]]
  /\ UNCHANGED <<engineVars, fwd, prs, bld, val>>

\* trigger_ospf
TriggerOspf ==
  /\ d1.pc = "trigger_ospf"
  /\ d1' = [d1 EXCEPT !.pc = "trigger_bgp",
                      !.ospf_neighbors = FormNeighbors(bld.edges, 1, OspfAdjacencyEdges(bld.edges), @)]
  /\ UNCHANGED <<engineVars, fwd, prs, bld, val>>

\* trigger_bgp
TriggerBgp ==
  /\ d1.pc = "trigger_bgp"
  /\ d1' = [d1 EXCEPT !.pc = "validate",
                      !.bgp_neighbors =
                         FormNeighbors(bld.edges, 1,
                                       {k \in 1..Len(bld.edges) : bld.edges[k].link_type = "bgp"}, @)]
  /\ UNCHANGED <<engineVars, fwd, prs, bld, val>>

\* validate_neighbors: the first loop leaves dev, exp_ospf and got of the last
\* device (unbound when configs is empty); the second loop runs once, after it
ValidateNeighbors ==
  /\ d1.pc = "validate"
  /\ IF Len(d1.configs) = 0
     THEN d1' = [d1 EXCEPT !.pc = "raised"]
     ELSE LET dev == d1.configs[Len(d1.configs)].dev
              exp_ospf == SelectSeq(TopoNeighbors(bld.edges, dev), LAMBDA n : n.link_type = "ospf")
              got == d1.ospf_neighbors[dev]
              missing == SelectSeq(exp_ospf, LAMBDA n : n.nbr \notin Elements(got))
          IN d1' = [d1 EXCEPT !.pc = "done",
                              !.failures = [k \in 1..Len(missing) |-> <<dev, missing[k].nbr>>]]
  /\ UNCHANGED <<engineVars, fwd, prs, bld, val>>

NextDay1 ==
  \/ \E configs \in Day1Inputs : BuildFromConfigs(configs)
  \/ Day1Run \/ BringUpInterfaces \/ PopulateArp \/ TriggerOspf \/ TriggerBgp
  \/ ValidateNeighbors
SpecDay1 == Init /\ [][NextDay1]_vars

----------------------------------------------------------------------------
(* Claims about Day 1                                                      *)

OspfEnabled(dev) == \E k \in 1..Len(d1.configs) :
                      d1.configs[k].dev = dev /\ d1.configs[k].ospf_enabled

\* C19: after the Day-1 sequence, two OSPF-enabled routers that the builder
\* joined by an edge on their shared subnet have each other in their
\* OSPF-neighbour sets.
C19_SubnetPeersAreOspfNeighbors ==
  d1.pc \in {"validate", "done", "raised"} =>
    \A k \in 1..Len(bld.edges) :
      LET e == bld.edges[k]
      IN (e.link_type = "subnet" /\ OspfEnabled(e.u) /\ OspfEnabled(e.v)) =>
           /\ e.v \in Elements(d1.ospf_neighbors[e.u])
           /\ e.u \in Elements(d1.ospf_neighbors[e.v])

\* the pairs (device, neighbour) joined by an ospf-typed edge whose neighbour
\* is missing from the device's OSPF-neighbour set
MissingOspfPairs ==
  UNION {{<<d1.configs[k].dev, n.nbr>> :
            n \in {m \in Elements(TopoNeighbors(bld.edges, d1.configs[k].dev)) :
                     /\ m.link_type = "ospf"
                     /\ m.nbr \notin Elements(d1.ospf_neighbors[d1.configs[k].dev])}} :
         k \in 1..Len(d1.configs)}

\* C20: the neighbour assertion completes for every record set, the empty
\* one included, and reports exactly the pairs (device, neighbour) on an
\* ospf-typed edge whose neighbour is missing, for every device.
C20_AssertionReportsEveryMissingPair ==
  /\ d1.pc # "raised"
  /\ d1.pc = "done" => /\ Elements(d1.failures) = MissingOspfPairs
                       /\ Len(d1.failures) = Cardinality(MissingOspfPairs)

----------------------------------------------------------------------------
(* Graph writers against the delivery worker *)

\* the worker is inside `for neighbor in self.topology.neighbors(sender_id)`
\* of _deliver_packet: it holds a live iterator over the sender's adjacency
WorkerInNeighborLookup == wpc \in {"next", "put"}

\* C22: the edge update of inject_link_failure and of restore_link never
\* happens while the delivery worker is in the middle of its iteration over
\* a sender's neighbours
C22_EdgeUpdateExcludesNeighborLookup ==
  [][WorkerInNeighborLookup => adj' = adj]_vars

\* every neighbour recorded in the graph is a node with a device record and
\* an agent (self.nodes holds its inbound queue)
EdgeEndpointsHaveAgents ==
  \A n \in NodeIds : Live(adj[n]) # {} => n \in Agents /\ Live(adj[n]) \subseteq Agents

\* C26: after any sequence of inject_link_failure and restore_link calls,
\* both endpoints of every edge have a device record and an agent, and the
\* delivery worker finds an inbound queue for every neighbour it looks up
C26_EveryEdgeEndpointHasAgent ==
  /\ EdgeEndpointsHaveAgents
  /\ (wpc = "put" => wst.nb \in Agents)

----------------------------------------------------------------------------
(* Fault injection on a loaded engine that is then paused or stopped: a    *)
(* burst of traffic from B fills A's inbound queue, the caller pauses or   *)
(* stops the engine and calls inject_link_failure(A, B)                    *)

NextOutage == \/ TrafficPut("B")
              \/ Threads
              \/ PauseSimulation
              \/ StopSimulation
              \/ InjectRemove("A", "B")
              \/ InjectPut
SpecOutage == InitStarted /\ [][NextOutage]_vars
\* rx_queue.put(failure_packet) goes on as soon as the queue has room
FairSpecOutage == SpecOutage /\ ThreadFairness /\ WF_vars(InjectPut)

\* C29: inject_link_failure(A,B) always returns to its caller, also when
\* A's inbound queue is at capacity and agent A is paused or stopped
C29_InjectAlwaysReturns == (cpc.pc = "inject_put") ~> (cpc.pc = "idle")

----------------------------------------------------------------------------
(* The device records during an analysis run *)

\* the records Day1Simulator holds in self.configs: the dict the parser
\* produced, which main passes on by reference to every later step
Day1Records == IF d1.pc = "idle" THEN <<>> ELSE d1.configs

\* C23: once the parser has produced the device records, no later step
\* (here the Day-1 driver) changes a field of a device record or of an
\* interface record
C23_RecordsAreImmutable ==
  [][d1.pc # "idle" => Day1Records' = Day1Records]_vars

----------------------------------------------------------------------------
(* Ownership of the agents' statistics *)

\* a step of agent n's own thread (NetworkNode.run): its position, or the
\* iterator it holds, changes
AgentStep(n) == apc'[n] # apc[n] \/ ait'[n] # ait[n]
\* a write to n's statistics dict
StatisticsWritten(n) ==
  packets_sent'[n] # packets_sent[n] \/ packets_dropped'[n] # packets_dropped[n]

\* C21: every write to an agent's statistics record is made by that agent's
\* own thread (so that no increment is lost under any interleaving with the
\* delivery worker)
C21_StatisticsOwnedByAgent ==
  [][\A n \in Agents : StatisticsWritten(n) => AgentStep(n)]_vars

----------------------------------------------------------------------------
(* The validator's VLAN check: NetworkValidator._check_vlan_consistency    *)

\* the `vlans` list of a device: entries with an id and a name
VlanTables == {<<>>, <<[id |-> "10", name |-> "VLAN10"]>>,
               <<[id |-> "10", name |-> "users"]>>,
               <<[id |-> "20", name |-> "VLAN20"]>>}
\* iface.get("access_vlan"): None, or a VLAN id
AccessVlans == {"None", "10", "20"}
VlanDevices == {"D1", "D2"}

\* the records given to the VLAN check: two devices in either order of the
\* configs dict, each with its VLAN table and one interface
VlanCheckInputs ==
  UNION {{<<[device |-> a, vlans |-> t1,
             interfaces |-> <<[name |-> "Gi0/1", access_vlan |-> v1]>>],
            [device |-> b, vlans |-> t2,
             interfaces |-> <<[name |-> "Gi0/1", access_vlan |-> v2]>>]>> :
          b \in VlanDevices \ {a}, t1 \in VlanTables, t2 \in VlanTables,
          v1 \in AccessVlans, v2 \in AccessVlans} : a \in VlanDevices}

\* vlan_definitions as the list of its (id, name) entries
DefinedIds(vlan_definitions) == {vlan_definitions[k].id : k \in 1..Len(vlan_definitions)}
NameOf(vlan_definitions, id) ==
  vlan_definitions[CHOOSE k \in 1..Len(vlan_definitions) : vlan_definitions[k].id = id].name

\* lines 78-85: the VLANs of one device, from entry v on
RECURSIVE CollectVlans(_, _, _, _)
CollectVlans(vlans, v, vlan_definitions, issues) ==
  IF v > Len(vlans) THEN [defs |-> vlan_definitions, issues |-> issues]
  ELSE IF vlans[v].id \in DefinedIds(vlan_definitions)
       THEN IF NameOf(vlan_definitions, vlans[v].id) # vlans[v].name
            THEN CollectVlans(vlans, v + 1, vlan_definitions,
                              Append(issues, [kind |-> "inconsistent", vlan |-> vlans[v].id,
                                              first |-> NameOf(vlan_definitions, vlans[v].id),
                                              second |-> vlans[v].name]))
            ELSE CollectVlans(vlans, v + 1, vlan_definitions, issues)
       ELSE CollectVlans(vlans, v + 1, Append(vlan_definitions, vlans[v]), issues)

\* lines 88-91: the interfaces of one device, from interface i on
RECURSIVE CheckAssignments(_, _, _, _)
CheckAssignments(cfg, i, vlan_definitions, issues) ==
  IF i > Len(cfg.interfaces) THEN issues
  ELSE LET access_vlan == cfg.interfaces[i].access_vlan IN
       IF access_vlan # "None" /\ access_vlan \notin DefinedIds(vlan_definitions)
       THEN CheckAssignments(cfg, i + 1, vlan_definitions,
                             Append(issues, [kind |-> "undefined", vlan |-> access_vlan,
                                             device |-> cfg.device,
                                             iface |-> cfg.interfaces[i].name]))
       ELSE CheckAssignments(cfg, i + 1, vlan_definitions, issues)

\* lines 75-91: the loop over the devices, with the one vlan_definitions
\* dict that lives across them
RECURSIVE VlanCheckFrom(_, _, _, _)
VlanCheckFrom(configs, d, vlan_definitions, issues) ==
  IF d > Len(configs) THEN issues
  ELSE LET c == CollectVlans(configs[d].vlans, 1, vlan_definitions, issues) IN
       VlanCheckFrom(configs, d + 1, c.defs,
                     CheckAssignments(configs[d], 1, c.defs, c.issues))

\* _check_vlan_consistency() on the records configs
CheckVlanConsistency(configs) ==
  /\ val.pc = "idle"
  /\ val' = [pc |-> "vlans_checked", configs |-> configs,
             issues |-> VlanCheckFrom(configs, 1, <<>>, <<>>)]
  /\ UNCHANGED <<engineVars, fwd, prs, bld, d1>>

NextVlan == \E configs \in VlanCheckInputs : CheckVlanConsistency(configs)
SpecVlan == Init /\ [][NextVlan]_vars

\* the check reported interface i of device d as referencing an undefined VLAN
ReportedUndefined(d, i) ==
  \E k \in 1..Len(val.issues) :
    val.issues[k] = [kind |-> "undefined", vlan |-> val.configs[d].interfaces[i].access_vlan,
                     device |-> val.configs[d].device,
                     iface |-> val.configs[d].interfaces[i].name]

\* C27: an interface's access VLAN is reported as undefined exactly when the
\* VLAN id is absent from the VLAN table of the device that owns the
\* interface, whatever other devices define and whatever the order of records
C27_UndefinedVlanIsPerDevice ==
  val.pc = "vlans_checked" =>
    \A d \in 1..Len(val.configs) : \A i \in 1..Len(val.configs[d].interfaces) :
      val.configs[d].interfaces[i].access_vlan # "None" =>
        (ReportedUndefined(d, i) <=>
           val.configs[d].interfaces[i].access_vlan \notin DefinedIds(val.configs[d].vlans))

----------------------------------------------------------------------------
(* The analysis tools on the shared graph.  main gives the one graph       *)
(* object to TrafficAnalyzer (before the engine starts), to the engine and *)
(* to Day2NetworkTester (while the engine runs); both tools run on the     *)
(* caller thread                                                           *)

\* nx.has_path(u, v) on the three-node graph once the edge u-v is gone
HasPathAround(u, v) ==
  \E w \in gnodes \ {u, v} : w \in Live(adj[u]) /\ v \in Live(adj[w])
\* nx.bridges: the edges whose removal disconnects their endpoints
Bridges == {l \in LinkArgs : HasEdge(l[1], l[2]) /\ ~HasPathAround(l[1], l[2])}

\* _generate_load_balancing_recommendations, for the bottleneck "u-v": the
\* has_edge test and remove_edge
AnalyzerRemove(u, v) ==
  /\ Idle
  /\ ~running /\ last_call.cur.op = "none"
  /\ link_calls < MaxLinkCalls
  /\ link_calls' = link_calls + 1
  /\ IF HasEdge(u, v)
     THEN /\ adj' = RemoveEdge(u, v)
          /\ edata' = RemoveEdgeData(u, v)
          /\ cpc' = [pc |-> "analyzer_removed", a |-> u, b |-> v]
     ELSE UNCHANGED <<adj, edata, cpc>>
  /\ UNCHANGED <<gnodes, flagVars, queueVars, statVars, agentVars, workerVars,
                 engineThreads, ipcVars, last_call, ext_puts, failed, pause_returned,
                 stop_returned, rx_log, pureVars>>

\* ... the search for alternative paths, and self.topology.add_edge(u, v)
AnalyzerRestore ==
  /\ cpc.pc = "analyzer_removed"
  /\ adj' = AddEdge(cpc.a, cpc.b)
  /\ edata' = AddEdgeData(cpc.a, cpc.b)
  /\ cpc' = [pc |-> "idle", a |-> NULL, b |-> NULL]
  /\ UNCHANGED <<gnodes, flagVars, queueVars, statVars, agentVars, workerVars,
                 engineThreads, ipcVars, histVars, pureVars>>

\* Day2NetworkTester._simulate_link_failure((u, v)) for a bridge (u, v) of
\* _identify_critical_links: the has_edge test and remove_edge
SimulateLinkFailure(u, v) ==
  /\ Idle
  /\ running
  /\ link_calls < MaxLinkCalls
  /\ link_calls' = link_calls + 1
  /\ <<u, v>> \in Bridges
  /\ adj' = RemoveEdge(u, v)
  /\ edata' = RemoveEdgeData(u, v)
  /\ cpc' = [pc |-> "day2_removed", a |-> u, b |-> v]
  /\ UNCHANGED <<gnodes, flagVars, queueVars, statVars, agentVars, workerVars,
                 engineThreads, ipcVars, last_call, ext_puts, failed, pause_returned,
                 stop_returned, rx_log, pureVars>>

\* ... the sampled has_path count, and `finally: self.topology.add_edge(u, v)`
SimulateLinkRestore ==
  /\ cpc.pc = "day2_removed"
  /\ adj' = AddEdge(cpc.a, cpc.b)
  /\ edata' = AddEdgeData(cpc.a, cpc.b)
  /\ cpc' = [pc |-> "idle", a |-> NULL, b |-> NULL]
  /\ UNCHANGED <<gnodes, flagVars, queueVars, statVars, agentVars, workerVars,
                 engineThreads, ipcVars, histVars, pureVars>>

AnalyzeCapacity == (\E l \in LinkArgs : AnalyzerRemove(l[1], l[2])) \/ AnalyzerRestore
RunComprehensiveTests ==
  (\E l \in LinkArgs : SimulateLinkFailure(l[1], l[2])) \/ SimulateLinkRestore

\* main: analyze_capacity, start_simulation, fault injection, Day-2 tests
NextMain == AnalyzeCapacity \/ StartSimulation \/ FaultInjection
            \/ RunComprehensiveTests \/ ClientPuts \/ Threads
SpecMain == Init /\ [][NextMain]_vars

\* the step belongs to inject_link_failure or to restore_link
FaultInjectionStep ==
  \E l \in LinkArgs : \/ InjectBlocks(l[1], l[2])
                      \/ InjectReturns(l[1], l[2])
                      \/ RestoreReturns(l[1], l[2])

\* C24: the edge set of the graph changes only inside inject_link_failure
\* and restore_link: analyze_capacity and run_comprehensive_tests never
\* remove or add an edge of the graph they share with the engine, not even
\* temporarily
C24_EdgeSetChangesOnlyInFaultInjection ==
  [][NeighborSets' # NeighborSets => FaultInjectionStep]_vars

\* C30: an edge that is removed and then re-added (by inject_link_failure
\* and restore_link, by the Day-2 failure simulation, by the traffic
\* analyzer) keeps its annotations: whenever an edge the graph was built
\* with is present, its link-type, subnet, bandwidth and cost are those it
\* was built with
C30_ReAddedEdgeKeepsAnnotations ==
  \A l \in LinkArgs :
    HasEdge(l[1], l[2]) /\ InitData[Link(l[1], l[2])] # EmptyData
      => edata[Link(l[1], l[2])] = InitData[Link(l[1], l[2])]

----------------------------------------------------------------------------
(* NetworkNode handling DATA: a sender S with the neighbours N1 and N2,    *)
(* one DATA packet of S delivered by _deliver_packet, and the two agents   *)
(* handling it; routing_table is an attribute the node's client fills      *)

\* largest TTL of the packet sent
MaxTtl == 3
TtlInputs == 1..MaxTtl

\* topology.neighbors("S") in dict order
Receivers == <<"N1", "N2">>
ReceiverSet == {Receivers[i] : i \in 1..Len(Receivers)}
\* NetworkNode.ip_addresses
IpAddresses == [r \in ReceiverSet |-> IF r = "N1" THEN {<<"1", "0", ".", "0", ".", "1", ".", "1">>} ELSE {<<"1", "0", ".", "0", ".", "2", ".", "1">>}]
\* packet.dest_ip: N2's own address, or an address of neither receiver
DestInputs == {<<"1", "0", ".", "0", ".", "2", ".", "1">>, <<"1", "0", ".", "0", ".", "0", ".", "9">>}
\* NetworkNode.routing_table: route -> next hop, in dict order
RoutingTables == {<<>>,
                  <<[route |-> <<"1", "0", ".", "0", ".", "0", ".", "0", "/", "2", "4">>, next_hop |-> "S"]>>,
                  <<[route |-> <<"1", "9", "2", ".", "1", "6", "8", ".", "1", ".", "0", "/", "2", "4">>, next_hop |-> "S"]>>}

\* the one NetworkPacket object of the send
PacketObjects == {"p"}

\* _lookup_route: the next hop of the first entry whose route.split('/')[0][:7]
\* is a prefix of dest_ip, None if there is none
RECURSIVE LookupRouteFrom(_, _, _)
LookupRouteFrom(routing_table, k, dest_ip) ==
  IF k > Len(routing_table) THEN NULL
  ELSE LET head == SplitHead(routing_table[k].route, "/")
           prefix == SubSeq(head, 1, IF Len(head) < 7 THEN Len(head) ELSE 7)
       IN IF StartsWith(dest_ip, prefix) THEN routing_table[k].next_hop
          ELSE LookupRouteFrom(routing_table, k + 1, dest_ip)
LookupRoute(routing_table, dest_ip) == LookupRouteFrom(routing_table, 1, dest_ip)

ForEachReceiver(x) == [r \in ReceiverSet |-> x]

\* a client creates NetworkPacket(packet_type="DATA", dest_ip=dest_ip, ttl=ttl)
\* and puts it on S's outbound queue; the worker takes it in _route_packets
SendData(ttl, dest_ip, tables) ==
  /\ fwd.pc = "idle"
  /\ fwd' = [pc |-> "sent", dest_ip |-> dest_ip, ttl0 |-> ttl, routing_table |-> tables,
             ttl |-> [o \in PacketObjects |-> ttl],
             wi |-> 1,
             rx_queue |-> ForEachReceiver(<<>>),
             rpc |-> ForEachReceiver("wait"),
             tmp |-> ForEachReceiver(0),
             seen |-> ForEachReceiver(0),
             decrements |-> ForEachReceiver(0),
             packets_received |-> ForEachReceiver(0),
             packets_dropped |-> ForEachReceiver(0),
             sent |-> ForEachReceiver(<<>>)]
  /\ UNCHANGED <<engineVars, prs, bld, val, d1>>

\* _deliver_packet: one turn of the loop over the neighbours of S,
\* self.nodes[neighbor].rx_queue.put_nowait(packet) with the packet object itself
DeliverPacket ==
  /\ fwd.pc = "sent"
  /\ fwd.wi <= Len(Receivers)
  /\ fwd' = [fwd EXCEPT !.rx_queue[Receivers[fwd.wi]] = Append(@, "p"),
                        !.wi = @ + 1]
  /\ UNCHANGED <<engineVars, prs, bld, val, d1>>

\* _process_packets of receiver r: get_nowait, _handle_packet (the log entry
\* holds asdict(packet)), _handle_data, and _forward_packet up to the route
\* lookup; packets_received += 1 when nothing more is done with the packet
ProcessPacket(r) ==
  /\ fwd.pc = "sent"
  /\ fwd.rpc[r] = "wait"
  /\ fwd.rx_queue[r] # <<>>
  /\ LET packet == Head(fwd.rx_queue[r])
         forwards == /\ fwd.dest_ip \notin IpAddresses[r]
                     /\ LookupRoute(fwd.routing_table[r], fwd.dest_ip) # NULL
     IN fwd' = [fwd EXCEPT !.rx_queue[r] = Tail(@),
                           !.seen[r] = fwd.ttl[packet],
                           !.rpc[r] = IF forwards THEN "load" ELSE "done",
                           !.packets_received[r] = IF forwards THEN @ ELSE @ + 1]
  /\ UNCHANGED <<engineVars, prs, bld, val, d1>>

\* packet.ttl -= 1: the read of packet.ttl
TtlLoad(r) ==
  /\ fwd.pc = "sent"
  /\ fwd.rpc[r] = "load"
  /\ fwd' = [fwd EXCEPT !.tmp[r] = fwd.ttl["p"], !.rpc[r] = "store"]
  /\ UNCHANGED <<engineVars, prs, bld, val, d1>>

\* packet.ttl -= 1: the write of packet.ttl
TtlStore(r) ==
  /\ fwd.pc = "sent"
  /\ fwd.rpc[r] = "store"
  /\ fwd' = [fwd EXCEPT !.ttl["p"] = fwd.tmp[r] - 1,
                        !.decrements[r] = @ + 1,
                        !.rpc[r] = "test"]
  /\ UNCHANGED <<engineVars, prs, bld, val, d1>>

\* `if packet.ttl > 0: self.send_packet(...)` (the log entry holds
\* asdict(packet)) `else: self.statistics["packets_dropped"] += 1`, then
\* packets_received += 1 back in _process_packets
TtlTest(r) ==
  /\ fwd.pc = "sent"
  /\ fwd.rpc[r] = "test"
  /\ fwd' = [fwd EXCEPT !.sent[r] = IF fwd.ttl["p"] > 0 THEN Append(@, fwd.ttl["p"]) ELSE @,
                        !.packets_dropped[r] = IF fwd.ttl["p"] > 0 THEN @ ELSE @ + 1,
                        !.packets_received[r] = @ + 1,
                        !.rpc[r] = "done"]
  /\ UNCHANGED <<engineVars, prs, bld, val, d1>>

HandleData(r) == ProcessPacket(r) \/ TtlLoad(r) \/ TtlStore(r) \/ TtlTest(r)

NextForward ==
  \/ \E ttl \in TtlInputs, dest_ip \in DestInputs, t1 \in RoutingTables, t2 \in RoutingTables :
       SendData(ttl, dest_ip, [r \in ReceiverSet |-> IF r = "N1" THEN t1 ELSE t2])
  \/ DeliverPacket
  \/ \E r \in ReceiverSet : HandleData(r)
SpecForward == Init /\ [][NextForward]_vars

----------------------------------------------------------------------------
(* Claims about DATA handling *)

\* receiver r has handled the DATA packet and the destination is not one of
\* its own addresses
HandledNonLocal(r) ==
  fwd.pc = "sent" /\ fwd.rpc[r] = "done" /\ fwd.dest_ip \notin IpAddresses[r]

\* C25: for every DATA message whose destination is not one of the agent's
\* own addresses, the agent decrements the TTL by one, forwards the message
\* only if the resulting TTL is positive, and when the TTL reaches zero
\* increments packets_dropped by one and does not forward; with or without
\* a matching route
C25_NonLocalDataDecrementsTtl ==
  \A r \in ReceiverSet :
    HandledNonLocal(r) =>
      /\ fwd.decrements[r] = 1
      /\ (fwd.sent[r] # <<>> => fwd.tmp[r] - 1 > 0)
      /\ fwd.packets_dropped[r] = (IF fwd.tmp[r] - 1 = 0 THEN 1 ELSE 0)

\* C28: each neighbour of the sender receives its own copy of the message:
\* the TTL of the message a receiver holds in its inbound queue, or has read
\* from it, is the TTL of the send, whatever another receiver did to its own
C28_ReceiversHoldOwnCopies ==
  fwd.pc = "sent" =>
    \A r \in ReceiverSet :
      /\ (fwd.rx_queue[r] # <<>> => fwd.ttl[Head(fwd.rx_queue[r])] = fwd.ttl0)
      /\ (fwd.rpc[r] # "wait" => fwd.seen[r] = fwd.ttl0)

====
